---- MODULE Spec2Model ----
(***************************************************************************)
(* SpriteGen scene compositing and animation engine: the dialogue          *)
(* typewriter / line-fade state machine (js/dialogue.js) and the scene and *)
(* background transition controllers (js/canvas.js), run on a model of the *)
(* browser event loop (one thread, setTimeout timers, requestAnimationFrame *)
(* callbacks run in registration order once per frame).                    *)
(*                                                                         *)
(* Time is an integer number of milliseconds.  Progress values and         *)
(* opacities are exact rationals [n, d] in lowest terms.  Text is a        *)
(* sequence of one-character strings.  A timer or frame handle is a        *)
(* positive integer, NULL is "no handle / no callback".                    *)
(***************************************************************************)
EXTENDS Integers, Sequences, FiniteSets, TLC

VARIABLES ds, cv, loop, obs

vars == <<ds, cv, loop, obs>>

NULL == 0

\* ------------------------------------------------------------------ bounds
MaxTime == 6
MaxOps == 3
HiMaxTime == 360
MaxTokens == 4
MaxSpriteOps == 4
MaxSpriteTime == 4
MaxPlayTime == 1000
MaxLiveTime == 4000
MaxLiveOps == 2
MaxHistoryOps == 5
MaxTimelineOps == 5

\* --------------------------------------------------------------- rationals
RECURSIVE GCD(_, _)
GCD(a, b) == IF b = 0 THEN a ELSE GCD(b, a % b)

Abs(x) == IF x < 0 THEN -x ELSE x

Min(a, b) == IF a <= b THEN a ELSE b

Rat(n, d) ==
    LET g == GCD(Abs(n), d)
    IN  [n |-> n \div g, d |-> d \div g]

Zero == [n |-> 0, d |-> 1]
One == [n |-> 1, d |-> 1]

RatLeq(a, b) == a.n * b.d <= b.n * a.d

RatLt(a, b) == a.n * b.d < b.n * a.d

RatOf(i) == [n |-> i, d |-> 1]

RatAdd(a, b) ==
    LET g == GCD(a.d, b.d)
    IN  Rat(a.n * (b.d \div g) + b.n * (a.d \div g), (a.d \div g) * b.d)

RatNeg(a) == [n |-> -a.n, d |-> a.d]

RatSub(a, b) == RatAdd(a, RatNeg(b))

RatMul(a, b) ==
    LET g1 == GCD(Abs(a.n), b.d)
        g2 == GCD(Abs(b.n), a.d)
    IN  Rat((a.n \div g1) * (b.n \div g2), (a.d \div g2) * (b.d \div g1))

RatAbs(a) == [n |-> Abs(a.n), d |-> a.d]

Half == [n |-> 1, d |-> 2]
Two == [n |-> 2, d |-> 1]

\* -------------------------------------------------------------------- text
Digits == {"0", "1", "2", "3", "4", "5", "6", "7", "8", "9"}

DigitVal(c) ==
    CASE c = "0" -> 0 [] c = "1" -> 1 [] c = "2" -> 2 [] c = "3" -> 3
      [] c = "4" -> 4 [] c = "5" -> 5 [] c = "6" -> 6 [] c = "7" -> 7
      [] c = "8" -> 8 [] c = "9" -> 9

ParseInt_mut(s) == IF s = <<>> THEN 0 ELSE DigitVal(s[1])

\* parseInt of a run of decimal digits
RECURSIVE ParseInt(_)
ParseInt(s) ==
    IF s = <<>> THEN 0
    ELSE 10 * ParseInt(SubSeq(s, 1, Len(s) - 1)) + DigitVal(s[Len(s)])

\* number of consecutive digits of text from position j on (\d+ is greedy)
RECURSIVE DigitRun(_, _)
DigitRun(text, j) ==
    IF j <= Len(text) /\ text[j] \in Digits THEN 1 + DigitRun(text, j + 1) ELSE 0

MatchEnd_mut(text, i) ==
    IF i + 1 <= Len(text) /\ text[i] = "[" /\ text[i + 1] = "["
    THEN LET k == DigitRun(text, i + 2)
         IN  IF k >= 1 THEN i + 2 + k ELSE 0
    ELSE 0

\* /\[\[(\d+)\]\]/ matched at position i: the position after the match, or 0
MatchEnd(text, i) ==
    IF i + 1 <= Len(text) /\ text[i] = "[" /\ text[i + 1] = "["
    THEN LET k == DigitRun(text, i + 2)
         IN  IF k >= 1 /\ i + 3 + k <= Len(text)
                /\ text[i + 2 + k] = "]" /\ text[i + 3 + k] = "]"
             THEN i + 4 + k
             ELSE 0
    ELSE 0

\* regex.exec with the g flag: the leftmost match starting at or after from
RECURSIVE NextMatch(_, _)
NextMatch(text, from) ==
    IF from > Len(text) THEN 0
    ELSE IF MatchEnd(text, from) # 0 THEN from
    ELSE NextMatch(text, from + 1)

TextSegment_mut(content) == [type |-> "text", content |-> <<>>]

TextSegment(content) == [type |-> "text", content |-> content]

PauseSegment_mut(ms) == [type |-> "pause", content |-> 0]

PauseSegment(ms) == [type |-> "pause", content |-> ms]

HasTextBefore_mut(m, lastIndex) == m >= lastIndex

\* match.index > lastIndex: there is text between the last match and this one
HasTextBefore(m, lastIndex) == m > lastIndex

RECURSIVE ParseFrom(_, _, _)
ParseFrom(text, lastIndex, segments) ==
    LET m == NextMatch(text, lastIndex)
    IN  IF m = 0
        THEN IF lastIndex <= Len(text)
             THEN Append(segments, TextSegment(SubSeq(text, lastIndex, Len(text))))
             ELSE segments
        ELSE LET e == MatchEnd(text, m)
                 before == IF HasTextBefore(m, lastIndex)
                           THEN Append(segments, TextSegment(SubSeq(text, lastIndex, m - 1)))
                           ELSE segments
                 pause == PauseSegment(ParseInt(SubSeq(text, m + 2, e - 3)))
             IN  ParseFrom(text, e, Append(before, pause))

parseTextWithPauses(text) == ParseFrom(text, 1, <<>>)

\* text.replace(/\[\[\d+\]\]/g, '')
RECURSIVE ReplaceFrom(_, _)
ReplaceFrom(text, from) ==
    LET m == NextMatch(text, from)
    IN  IF m = 0 THEN SubSeq(text, from, Len(text))
        ELSE SubSeq(text, from, m - 1) \o ReplaceFrom(text, MatchEnd(text, m))

getCleanText(text) == ReplaceFrom(text, 1)

\* ------------------------------------------------------------ model inputs
TxtEmpty == <<>>
TxtAb == <<"a", "b">>
TxtPause == <<"a", "[", "[", "2", "]", "]", "b">>
TxtPauses == <<"[", "[", "1", "]", "]", "[", "[", "2", "]", "]">>
TxtOpen == <<"a", "[", "[">>
TxtHi == <<"H", "i", "[", "[", "2", "0", "0", "]", "]", "!">>

Line(text, speed) == [text |-> text, typingSpeed |-> speed, visible |-> TRUE]

HiLine == Line(TxtHi, 50)

TxtHello == <<"H", "e", "l", "l", "o", " ", "[", "[", "5", "0", "0", "]", "]",
              "w", "o", "r", "l", "d">>

\* the pieces the input texts are put together from
Tokens ==
    { <<"a">>, <<"[">>, <<"]">>, <<"1">>, <<"[", "[">>, <<"]", "]">>,
      <<"[", "[", "2", "]", "]">> }

RECURSIVE Flatten(_)
Flatten(seqs) == IF seqs = <<>> THEN <<>> ELSE Head(seqs) \o Flatten(Tail(seqs))

\* every text made of at most MaxTokens pieces, and the documented example
TextInputs ==
    {Flatten(f) : f \in UNION {[1..n -> Tokens] : n \in 0..MaxTokens}} \cup {TxtHello}

LineLists ==
    { <<>>,
      <<Line(TxtAb, 2)>>,
      <<Line(TxtPause, 1), Line(TxtAb, 1)>>,
      <<Line(TxtPauses, 2), Line(TxtOpen, 1), Line(TxtEmpty, 1)>> }

FadeDurations == {2, 4}

\* ------------------------------------------------------------- event loop
\* setTimeout(closure, delay): the handle is W.loop.nextId
SetTimeout(W, kind, delay) ==
    [W EXCEPT !.loop.timers = @ \cup {[id |-> W.loop.nextId, due |-> W.loop.now + delay,
                                       kind |-> kind]},
              !.loop.nextId = @ + 1]

ClearTimeout_mut(W, id) == W

ClearTimeout(W, id) ==
    [W EXCEPT !.loop.timers = {t \in @ : t.id # id}]

\* requestAnimationFrame(closure): run in the next frame, in registration order
RequestAnimationFrame(W, closure) ==
    [W EXCEPT !.loop.raf = Append(@, closure)]

\* a frame-request handle (the code stores it and never reads it)
RAF == 1

\* ------------------------------------------------- DialogueSystem: typing
\* the closures the application passes as callbacks (defined with the App)
AppClosure == -1

RECURSIVE AppOnTypingUpdate(_), AppOnTypingComplete(_), AppOnFadeOut(_), AppOnFadeIn(_)

\* onUpdate callbacks of a caller that call back into the dialogue system:
\* one calls skipTyping(), the other stopTyping() (defined after them)
SkipClosure == -2
StopClosure == -3

RECURSIVE ReentrantOnUpdate(_)

\* the caller's onUpdate callback (opaque to the dialogue system)
OnTypingUpdate(W) ==
    IF W.ds.onTypingUpdate = AppClosure THEN AppOnTypingUpdate(W)
    ELSE IF W.ds.onTypingUpdate \in {SkipClosure, StopClosure} THEN ReentrantOnUpdate(W)
    ELSE IF W.ds.onTypingUpdate # NULL
    THEN [W EXCEPT !.obs.staleCallback = @ \/ (W.ds.onTypingUpdate # W.obs.typingGen)]
    ELSE W

\* the caller's onComplete callback
OnTypingComplete(W) ==
    IF W.ds.onTypingComplete = AppClosure THEN AppOnTypingComplete(W)
    ELSE IF W.ds.onTypingComplete # NULL
    THEN [W EXCEPT !.obs.staleCallback = @ \/ (W.ds.onTypingComplete # W.obs.typingGen),
                   !.obs.completes = @ + 1]
    ELSE W

stopTyping_mut(W) ==
    [W EXCEPT !.ds.typingTimeout = NULL, !.ds.currentDialogue.isTyping = FALSE]

stopTyping(W) ==
    LET W1 == IF W.ds.typingTimeout # NULL
              THEN [ClearTimeout(W, W.ds.typingTimeout) EXCEPT !.ds.typingTimeout = NULL]
              ELSE W
    IN  [W1 EXCEPT !.ds.currentDialogue.isTyping = FALSE]

finishTyping(W) ==
    LET W1 == [W EXCEPT !.ds.currentDialogue.isTyping = FALSE,
                        !.ds.currentDialogue.typingComplete = TRUE,
                        !.ds.currentDialogue.displayedText =
                            ReplaceFrom(W.ds.currentDialogue.text, 1),
                        !.obs.completedAt = W.loop.now]
    IN  OnTypingComplete(OnTypingUpdate(W1))

CharDelay_mut(cur) == 0

\* delay before the next reveal step
CharDelay(cur) == cur.typingSpeed

RECURSIVE typeNextCharacter(_)
typeNextCharacter(W) ==
    IF W.ds.currentSegmentIndex >= Len(W.ds.parsedSegments)
    THEN finishTyping(W)
    ELSE LET segment == W.ds.parsedSegments[W.ds.currentSegmentIndex + 1]
         IN  IF segment.type = "pause"
             THEN [SetTimeout(W, "pause", segment.content)
                      EXCEPT !.ds.typingTimeout = W.loop.nextId]
             ELSE IF W.ds.typingIndex < Len(segment.content)
             THEN LET W1 == [W EXCEPT !.ds.currentDialogue.displayedText =
                                          Append(@, segment.content[W.ds.typingIndex + 1]),
                                      !.ds.typingIndex = @ + 1]
                      W2 == OnTypingUpdate(W1)
                  IN  [SetTimeout(W2, "char", CharDelay(W2.ds.currentDialogue))
                          EXCEPT !.ds.typingTimeout = W2.loop.nextId]
             ELSE typeNextCharacter([W EXCEPT !.ds.currentSegmentIndex = @ + 1,
                                              !.ds.typingIndex = 0])

startTyping(W, onUpdate, onComplete) ==
    LET W1 == stopTyping(W)
        W2 == [W1 EXCEPT !.ds.currentDialogue.displayedText = <<>>,
                         !.ds.currentDialogue.isTyping = TRUE,
                         !.ds.currentDialogue.typingComplete = FALSE,
                         !.ds.typingIndex = 0,
                         !.ds.currentSegmentIndex = 0,
                         !.ds.onTypingUpdate = onUpdate,
                         !.ds.onTypingComplete = onComplete,
                         !.ds.parsedSegments =
                             parseTextWithPauses(W1.ds.currentDialogue.text)]
    IN  IF Len(W2.ds.parsedSegments) = 0 THEN finishTyping(W2) ELSE typeNextCharacter(W2)

skipTyping(W) == finishTyping(stopTyping(W))

\* the callback calls skipTyping() or stopTyping() once, when it is handed
\* the dialogue in the middle of a sequence with obs.reenterAt characters
\* revealed; obs.reentered records the call
ReentrantOnUpdate(W) ==
    IF /\ W.obs.reentered = "no"
       /\ W.ds.currentDialogue.isTyping
       /\ Len(W.ds.currentDialogue.displayedText) = W.obs.reenterAt
    THEN IF W.ds.onTypingUpdate = SkipClosure
         THEN skipTyping([W EXCEPT !.obs.reentered = "skip"])
         ELSE stopTyping([W EXCEPT !.obs.reentered = "stop"])
    ELSE W

setText(W, text) ==
    [W EXCEPT !.ds.currentDialogue.text = text,
              !.ds.currentDialogue.displayedText = <<>>,
              !.ds.currentDialogue.typingComplete = FALSE]

TypingTimer_mut(W, kind) == typeNextCharacter(W)

\* the closure of a typing timer
TypingTimer(W, kind) ==
    IF kind = "pause"
    THEN typeNextCharacter([W EXCEPT !.ds.currentSegmentIndex = @ + 1, !.ds.typingIndex = 0])
    ELSE typeNextCharacter(W)

\* --------------------------------------------- DialogueSystem: line fades
UNDEFINED == <<>>

\* { ...a, ...b }
Spread(a, b) ==
    [f \in (DOMAIN a) \cup (DOMAIN b) |-> IF f \in DOMAIN b THEN b[f] ELSE a[f]]

\* lines[index] of a JavaScript array (0-based), undefined out of range
LineAt(lines, index) ==
    IF index + 1 \in DOMAIN lines THEN lines[index + 1] ELSE UNDEFINED

setDialogue(W, dialogue) ==
    [W EXCEPT !.ds.currentDialogue = Spread(@, dialogue), !.obs.seqClean = FALSE]

setDialogueLines(W, lines) ==
    LET W1 == [W EXCEPT !.ds.dialogueLines = lines,
                        !.ds.currentLineIndex = 0,
                        !.ds.fadeOpacity = One,
                        !.ds.isFading = FALSE]
    IN  IF Len(lines) > 0 THEN setDialogue(W1, lines[1]) ELSE W1

\* the caller's onFadeOut / onFadeIn callbacks: what they observe when invoked
FadeEvent(W, ev, chain) ==
    IF chain = AppClosure
    THEN (IF ev = "onFadeOut" THEN AppOnFadeOut(W) ELSE AppOnFadeIn(W))
    ELSE
    [W EXCEPT !.obs.fadeEvents =
        Append(@, [ev |-> ev, chain |-> chain,
                   index |-> W.ds.currentLineIndex,
                   opacity |-> W.ds.fadeOpacity,
                   isFading |-> W.ds.isFading,
                   text |-> W.ds.currentDialogue.text])]

FadeRunning_mut(progress) == FALSE

\* the fade stage has not reached its end
FadeRunning(progress) == progress # One

\* one run of animateFade's frame closure c; c.fd is the fadeDuration the
\* sequence was started with, the duration of the stage is c.fd / 2
RECURSIVE FadeAnimate(_, _)
FadeAnimate(W, c) ==
    LET elapsed == W.loop.now - c.startTime
        progress == Rat(Min(2 * elapsed, c.fd), c.fd)
        W1 == [W EXCEPT !.ds.fadeOpacity =
                   Rat(c.from * progress.d + (c.to - c.from) * progress.n, progress.d)]
        W2 == OnTypingUpdate(W1)
    IN  IF FadeRunning(progress)
        THEN [RequestAnimationFrame(W2, c) EXCEPT !.ds.fadeTimeout = RAF]
        ELSE LET W3 == [W2 EXCEPT !.ds.fadeOpacity = Rat(c.to, 1)]
             IN  IF c.stage = "out"
                 THEN \* advanceToNextLine's fade-out continuation
                      LET W4 == [W3 EXCEPT !.ds.currentLineIndex = @ + 1]
                          W5 == setDialogue(W4, LineAt(W4.ds.dialogueLines,
                                                       W4.ds.currentLineIndex))
                          W6 == IF c.onFadeOut # NULL
                                THEN FadeEvent(W5, "onFadeOut", c.onFadeOut) ELSE W5
                      IN  FadeAnimate(W6, [c EXCEPT !.from = 0, !.to = 1,
                                                    !.fd = W6.ds.fadeDuration,
                                                    !.startTime = W6.loop.now,
                                                    !.stage = "in"])
                 ELSE \* the fade-in continuation
                      LET W4 == [W3 EXCEPT !.ds.isFading = FALSE]
                      IN  IF c.onFadeIn # NULL
                          THEN FadeEvent(W4, "onFadeIn", c.onFadeIn) ELSE W4

AtLastLine_mut(index, lines) == index >= Len(lines)

\* the cursor is on the last line, or there is no line
AtLastLine(index, lines) == index >= Len(lines) - 1

advanceToNextLine(W, onFadeOut, onFadeIn) ==
    IF AtLastLine(W.ds.currentLineIndex, W.ds.dialogueLines)
    THEN [W EXCEPT !.obs.allLinesComplete =
                       IF W.ds.onAllLinesComplete # NULL THEN @ + 1 ELSE @,
                   !.obs.ret = FALSE]
    ELSE LET W1 == [W EXCEPT !.ds.isFading = TRUE, !.obs.ret = TRUE]
         IN  FadeAnimate(W1, [kind |-> "fade", from |-> 1, to |-> 0,
                              fd |-> W1.ds.fadeDuration, startTime |-> W1.loop.now,
                              stage |-> "out",
                              onFadeOut |-> onFadeOut, onFadeIn |-> onFadeIn])

\* ------------------------------------------- CanvasEngine: transitions
SceneDurations == {2, 4}
BgDurations == {2, 3}
SceneStyles == {"none", "fade", "fadeToBlack", "fadeToWhite", "slideLeft"}
BgStyles == {"none", "fade", "fadeToBlack"}
Backgrounds == {1, 2}

\* ----------------------------------- CanvasEngine: sprites and animations
\* utils.js easingFunctions, on exact rationals (t after the clamp to [0,1])
Sq(t) == RatMul(t, t)
Cube(t) == RatMul(t, Sq(t))
Quart(t) == RatMul(Sq(t), Sq(t))

linear(t) == t
easeIn(t) == Sq(t)
easeOut(t) == RatMul(t, RatSub(Two, t))

easeInOut(t) ==
    IF RatLt(t, Half)
    THEN RatMul(Two, Sq(t))
    ELSE RatAdd(RatOf(-1), RatMul(RatSub(RatOf(4), RatMul(Two, t)), t))

easeInCubic(t) == Cube(t)
easeOutCubic(t) == RatAdd(Cube(RatSub(t, One)), One)

easeInOutCubic(t) ==
    IF RatLt(t, Half)
    THEN RatMul(RatOf(4), Cube(t))
    ELSE RatAdd(RatMul(RatSub(t, One), Sq(RatSub(RatMul(Two, t), Two))), One)

easeInQuart(t) == Quart(t)
easeOutQuart(t) == RatSub(One, Quart(RatSub(t, One)))

easeInOutQuart(t) ==
    IF RatLt(t, Half)
    THEN RatMul(RatOf(8), Quart(t))
    ELSE RatSub(One, RatMul(RatOf(8), Quart(RatSub(t, One))))

\* c1 = 1.70158, c3 = c1 + 1
easeOutBack(t) ==
    LET c1 == Rat(170158, 100000)
        c3 == RatAdd(c1, One)
    IN  RatAdd(RatAdd(One, RatMul(c3, Cube(RatSub(t, One)))),
               RatMul(c1, Sq(RatSub(t, One))))

\* the curves computed exactly here; any other name falls back to easeInOut
\* (easeOutElastic, built on sin and pow, is not among the inputs)
EasingNames ==
    {"linear", "easeIn", "easeOut", "easeInOut", "easeInCubic", "easeOutCubic",
     "easeInOutCubic", "easeInQuart", "easeOutQuart", "easeInOutQuart", "easeOutBack"}

Clamp01(t) == IF RatLt(t, Zero) THEN Zero ELSE IF RatLt(One, t) THEN One ELSE t

applyEasing(t, easingName) ==
    LET c == Clamp01(t)
    IN  CASE easingName = "linear" -> linear(c)
          [] easingName = "easeIn" -> easeIn(c)
          [] easingName = "easeOut" -> easeOut(c)
          [] easingName = "easeInCubic" -> easeInCubic(c)
          [] easingName = "easeOutCubic" -> easeOutCubic(c)
          [] easingName = "easeInOutCubic" -> easeInOutCubic(c)
          [] easingName = "easeInQuart" -> easeInQuart(c)
          [] easingName = "easeOutQuart" -> easeOutQuart(c)
          [] easingName = "easeInOutQuart" -> easeInOutQuart(c)
          [] easingName = "easeOutBack" -> easeOutBack(c)
          [] OTHER -> easeInOut(c)

\* a scale factor 1 + (coef / 1000) * sin(t * pi), kept symbolic; sin is 0
\* at t = 0, 1 and 2, where the factor is exactly 1
UnitFactor == [coef |-> 0, t |-> Zero]

Factor(coef, t) ==
    IF t = Zero \/ t = One \/ t = Two THEN UnitFactor ELSE [coef |-> coef, t |-> t]

\* Math.min(elapsed / duration, 1), both in milliseconds
Progress(elapsed, duration) == Rat(Min(elapsed, duration), duration)

Put(f, id, v) == [i \in DOMAIN f \cup {id} |-> IF i = id THEN v ELSE f[i]]

\* this.sprites.find(s => s.id === spriteId): its index, 0 when there is none
RECURSIVE FindFrom(_, _, _)
FindFrom(sprites, spriteId, i) ==
    IF i > Len(sprites) THEN 0
    ELSE IF sprites[i].id = spriteId THEN i
    ELSE FindFrom(sprites, spriteId, i + 1)

Find(sprites, spriteId) == FindFrom(sprites, spriteId, 1)

SquishDone_mut(progress) == FALSE

\* progress >= 1: the squish-stretch record is complete
SquishDone(progress) == RatLeq(One, progress)

\* one squish-stretch record in updateAnimations
SquishStep(anim, progress) ==
    IF RatLt(progress, Half)
    THEN LET t == RatMul(progress, Two)
         IN  [anim EXCEPT !.scaleX = Factor(-80, t), !.scaleY = Factor(40, t)]
    ELSE LET t == RatMul(RatSub(progress, Half), Two)
         IN  [anim EXCEPT !.scaleX = Factor(30, t), !.scaleY = Factor(-60, t)]

UpdateSquish(W) ==
    LET anims == W.cv.spriteAnimations
        prog(id) == Progress(W.loop.now - anims[id].startTime, W.cv.animationDuration)
        live == {id \in DOMAIN anims : ~SquishDone(prog(id))}
    IN  [W EXCEPT !.cv.spriteAnimations = [id \in live |-> SquishStep(anims[id], prog(id))]]

Lerp(from, to, progress) == RatAdd(from, RatMul(RatSub(to, from), progress))

TweenDone_mut(rawProgress) == RatLeq(Zero, rawProgress)

\* rawProgress >= 1: the position tween is complete
TweenDone(rawProgress) == RatLeq(One, rawProgress)

\* one position record in updateAnimations, on the sprite it names
TweenStep(sprite, anim, rawProgress, easing) ==
    LET progress == applyEasing(rawProgress, easing)
    IN  IF TweenDone(rawProgress)
        THEN [sprite EXCEPT !.x = anim.toX, !.y = anim.toY]
        ELSE [sprite EXCEPT !.x = Lerp(anim.fromX, anim.toX, progress),
                            !.y = Lerp(anim.fromY, anim.toY, progress)]

UpdateTweens(W) ==
    LET anims == W.cv.positionAnimations
        raw(id) == Progress(W.loop.now - anims[id].startTime,
                            W.cv.positionTransitionDuration)
        live == {id \in DOMAIN anims : ~TweenDone(raw(id))}
    IN  [W EXCEPT !.cv.sprites =
                      [i \in DOMAIN @ |->
                          IF @[i].id \in DOMAIN anims /\ Find(@, @[i].id) = i
                          THEN TweenStep(@[i], anims[@[i].id], raw(@[i].id),
                                         W.cv.positionTransitionEasing)
                          ELSE @[i]],
                  !.cv.positionAnimations = [id \in live |-> anims[id]]]

updateAnimations(W) == UpdateTweens(UpdateSquish(W))

\* sin(breathingPhase) scaled: breathingPhase is kept in cycles (phase / 2 pi)
getBreathingScale(W) ==
    [x |-> Factor(2, RatMul(Two, W.cv.breathingPhase)),
     y |-> Factor(4, RatMul(Two, W.cv.breathingPhase))]

\* what drawSprite paints for one sprite: its place and scale and the two
\* distortions multiplied into its size
drawSprite(W, sprite) ==
    LET anims == W.cv.spriteAnimations
        has == sprite.id \in DOMAIN anims
        breathing == IF has THEN [x |-> UnitFactor, y |-> UnitFactor]
                     ELSE getBreathingScale(W)
    IN  [id |-> sprite.id, x |-> sprite.x, y |-> sprite.y, scale |-> sprite.scale,
         animScaleX |-> IF has THEN anims[sprite.id].scaleX ELSE UnitFactor,
         animScaleY |-> IF has THEN anims[sprite.id].scaleY ELSE UnitFactor,
         breathingX |-> breathing.x, breathingY |-> breathing.y]

\* this.dialogue = null
NoDialogue == [null |-> TRUE]

\* sprite.image.width is read of a sprite whose image is undefined: TypeError
ImageMissing(sprite) == sprite.image = "missing"

\* render() paints the frame: the engine's state is left as it is, what was
\* painted is observed. The stages run in order (background, sprites in
\* list order, selection outline, dialogue box, transition overlay); the
\* first sprite whose image is missing makes drawSprite raise, which ends
\* render() there. drawImage of an image that is not decoded yet returns
\* without painting.
Paint(W, sprites, raised, reached) ==
    [W EXCEPT
        !.obs.painted = [i \in 1..reached |-> drawSprite(W, sprites[i])],
        !.obs.frame =
            [raised |-> raised,
             background |-> IF W.cv.isBgTransitioning /\ W.cv.previousBackground # NULL
                            THEN "transition"
                            ELSE IF W.cv.background # NULL THEN "image" ELSE "colour",
             sprites |-> {sprites[i].id : i \in 1..reached},
             selection |-> ~raised /\ W.cv.selectedSprite # NULL,
             dialogue |-> ~raised /\ W.cv.dialogue # NoDialogue /\ W.cv.dialogue.visible,
             overlay |-> ~raised /\ W.cv.isTransitioning]]

\* the sprites drawSprite completes for: those before the first missing image
Reached(sprites, missing) ==
    IF missing # {} THEN (CHOOSE i \in missing : \A j \in missing : i <= j) - 1
    ELSE Len(sprites)

Missing(sprites) == {i \in DOMAIN sprites : ImageMissing(sprites[i])}

render(W) ==
    Paint(W, W.cv.sprites, Missing(W.cv.sprites) # {},
          Reached(W.cv.sprites, Missing(W.cv.sprites)))

\* the statements after a render() call run unless render() raised
Unless(W, Rest(_)) == IF W.obs.frame.raised THEN W ELSE Rest(W)

triggerSpriteAnimation(W, spriteId) ==
    [W EXCEPT !.cv.spriteAnimations =
        Put(@, spriteId, [startTime |-> W.loop.now,
                          scaleX |-> UnitFactor, scaleY |-> UnitFactor])]

triggerPositionAnimation(W, spriteId, fromX, fromY, toX, toY) ==
    [W EXCEPT !.cv.positionAnimations =
        Put(@, spriteId, [startTime |-> W.loop.now, fromX |-> fromX, fromY |-> fromY,
                          toX |-> toX, toY |-> toY])]

addSprite(W, spriteData) ==
    render(triggerSpriteAnimation([W EXCEPT !.cv.sprites = Append(@, spriteData)],
                                  spriteData.id))

removeSprite(W, spriteId) ==
    LET index == Find(W.cv.sprites, spriteId)
    IN  IF index # 0
        THEN render([W EXCEPT !.cv.selectedSprite = IF @ = spriteId THEN NULL ELSE @,
                              !.cv.sprites = SubSeq(@, 1, index - 1)
                                             \o SubSeq(@, index + 1, Len(@))])
        ELSE W

\* Object.assign(sprite, properties); render()
updateSprite(W, spriteId, properties) ==
    LET index == Find(W.cv.sprites, spriteId)
    IN  IF index # 0
        THEN render([W EXCEPT !.cv.sprites[index] = Spread(@, properties)])
        ELSE W

\* ------------------------------------------- CanvasEngine: pointer events
\* window.dispatchEvent(new CustomEvent(name, {detail: sprite}))
DispatchEvent(W, name, spriteId) ==
    [W EXCEPT !.obs.dispatched = [name |-> name, detail |-> spriteId]]

selectSprite(W, spriteId) ==
    Unless(render([W EXCEPT !.cv.selectedSprite = spriteId]),
           LAMBDA V : DispatchEvent(V, "spriteSelected", spriteId))

getSpriteBounds(sprite) ==
    LET scale == Rat(sprite.scale, 100)
        width == RatMul(RatOf(sprite.w), scale)
        height == RatMul(RatOf(sprite.h), scale)
    IN  [x |-> RatSub(sprite.x, RatMul(width, Half)),
         y |-> RatSub(sprite.y, RatMul(height, Half)),
         width |-> width, height |-> height]

pointInRect(px, py, rx, ry, rw, rh) ==
    /\ RatLeq(rx, px) /\ RatLeq(px, RatAdd(rx, rw))
    /\ RatLeq(ry, py) /\ RatLeq(py, RatAdd(ry, rh))

Selected(W) == W.cv.sprites[Find(W.cv.sprites, W.cv.selectedSprite)]

HasSelection(W) ==
    W.cv.selectedSprite # NULL /\ Find(W.cv.sprites, W.cv.selectedSprite) # 0

\* this.handleSize / 2
HalfHandle == RatOf(10)

HandleIds == <<"tl", "tr", "bl", "br">>

\* resizeHandle = null
NoHandle == "null"

HandleAt(bounds, id) ==
    CASE id = "tl" -> [x |-> bounds.x, y |-> bounds.y]
      [] id = "tr" -> [x |-> RatAdd(bounds.x, bounds.width), y |-> bounds.y]
      [] id = "bl" -> [x |-> bounds.x, y |-> RatAdd(bounds.y, bounds.height)]
      [] id = "br" -> [x |-> RatAdd(bounds.x, bounds.width),
                       y |-> RatAdd(bounds.y, bounds.height)]

OnHandle(pos, handle) ==
    /\ RatLeq(RatSub(handle.x, HalfHandle), pos.x)
    /\ RatLeq(pos.x, RatAdd(handle.x, HalfHandle))
    /\ RatLeq(RatSub(handle.y, HalfHandle), pos.y)
    /\ RatLeq(pos.y, RatAdd(handle.y, HalfHandle))

\* the first of tl, tr, bl, br the point is on, or NULL
getResizeHandleAt(W, pos) ==
    IF ~HasSelection(W) THEN NoHandle
    ELSE LET bounds == getSpriteBounds(Selected(W))
             hits == {k \in 1..4 : OnHandle(pos, HandleAt(bounds, HandleIds[k]))}
         IN  IF hits = {} THEN NoHandle
             ELSE HandleIds[CHOOSE k \in hits : \A j \in hits : k <= j]

TopmostAt_mut(W, pos) ==
    LET hits == {i \in DOMAIN W.cv.sprites :
                    LET b == getSpriteBounds(W.cv.sprites[i])
                    IN  pointInRect(pos.x, pos.y, b.x, b.y, b.width, b.height)}
    IN  IF hits = {} THEN 0 ELSE CHOOSE i \in hits : \A j \in hits : i <= j

\* the topmost sprite whose bounding box holds the point: its index, or 0
TopmostAt(W, pos) ==
    LET hits == {i \in DOMAIN W.cv.sprites :
                    LET b == getSpriteBounds(W.cv.sprites[i])
                    IN  pointInRect(pos.x, pos.y, b.x, b.y, b.width, b.height)}
    IN  IF hits = {} THEN 0 ELSE CHOOSE i \in hits : \A j \in hits : j <= i

onMouseDown(W, pos) ==
    LET handle == getResizeHandleAt(W, pos)
        top == TopmostAt(W, pos)
    IN  IF HasSelection(W) /\ handle # NoHandle
        THEN [W EXCEPT !.cv.isResizing = TRUE,
                       !.cv.resizeHandle = handle,
                       !.cv.resizeStart = [x |-> pos.x, y |-> pos.y,
                                           scale |-> Selected(W).scale,
                                           spriteX |-> Selected(W).x,
                                           spriteY |-> Selected(W).y]]
        ELSE IF top # 0
        THEN LET sprite == W.cv.sprites[top]
             IN  [selectSprite(W, sprite.id) EXCEPT
                     !.cv.isDragging = TRUE,
                     !.cv.dragOffset = [x |-> RatSub(pos.x, sprite.x),
                                        y |-> RatSub(pos.y, sprite.y)]]
        ELSE selectSprite(W, NULL)

updateCursor(W, pos) ==
    IF ~HasSelection(W) THEN [W EXCEPT !.cv.cursor = "default"]
    ELSE LET handle == getResizeHandleAt(W, pos)
             b == getSpriteBounds(Selected(W))
         IN  IF handle \in {"tl", "br"} THEN [W EXCEPT !.cv.cursor = "nwse-resize"]
             ELSE IF handle \in {"tr", "bl"} THEN [W EXCEPT !.cv.cursor = "nesw-resize"]
             ELSE IF pointInRect(pos.x, pos.y, b.x, b.y, b.width, b.height)
             THEN [W EXCEPT !.cv.cursor = "move"]
             ELSE [W EXCEPT !.cv.cursor = "default"]

\* Math.round: to the nearest integer, halves upwards
Round(q) == (2 * q.n + q.d) \div (2 * q.d)

ClampScale_mut(newScale) == newScale

\* Math.max(10, Math.min(300, newScale))
ClampScale(newScale) ==
    IF RatLt(newScale, RatOf(10)) THEN RatOf(10)
    ELSE IF RatLt(RatOf(300), newScale) THEN RatOf(300)
    ELSE newScale

ResizeDelta(handle, dx, dy) ==
    CASE handle = "br" -> RatMul(RatAdd(dx, dy), Half)
      [] handle = "bl" -> RatMul(RatAdd(RatNeg(dx), dy), Half)
      [] handle = "tr" -> RatMul(RatSub(dx, dy), Half)
      [] handle = "tl" -> RatMul(RatSub(RatNeg(dx), dy), Half)
      [] OTHER -> Zero

onMouseMove(W, pos) ==
    LET W1 == updateCursor(W, pos)
        index == Find(W1.cv.sprites, W1.cv.selectedSprite)
    IN  IF W1.cv.isResizing /\ HasSelection(W1)
        THEN LET dx == RatSub(pos.x, W1.cv.resizeStart.x)
                 dy == RatSub(pos.y, W1.cv.resizeStart.y)
                 delta == ResizeDelta(W1.cv.resizeHandle, dx, dy)
                 newScale == ClampScale(RatAdd(RatOf(W1.cv.resizeStart.scale),
                                               RatMul(delta, Half)))
                 W2 == [W1 EXCEPT !.cv.sprites[index].scale = Round(newScale)]
             IN  Unless(render(W2),
                        LAMBDA V : DispatchEvent(V, "spriteUpdated", V.cv.selectedSprite))
        ELSE IF W1.cv.isDragging /\ HasSelection(W1)
        THEN LET W2 == [W1 EXCEPT
                           !.cv.sprites[index].x = RatSub(pos.x, W1.cv.dragOffset.x),
                           !.cv.sprites[index].y = RatSub(pos.y, W1.cv.dragOffset.y)]
             IN  Unless(render(W2),
                        LAMBDA V : DispatchEvent(V, "spriteUpdated", V.cv.selectedSprite))
        ELSE W1

onMouseUp_mut(W) == [W EXCEPT !.cv.isDragging = FALSE]

onMouseUp(W) ==
    [W EXCEPT !.cv.isDragging = FALSE, !.cv.isResizing = FALSE, !.cv.resizeHandle = NoHandle]

\* breathingSpeed cycles per second: 0.8, in cycles per millisecond
BreathingPerMs == Rat(8, 10000)

\* the closure of startAnimationLoop, run once per frame
AnimationLoop(W) ==
    LET deltaTime == W.loop.now - W.cv.lastFrameTime
        phase == RatAdd(W.cv.breathingPhase, RatMul(RatOf(deltaTime), BreathingPerMs))
        W1 == [W EXCEPT !.cv.lastFrameTime = W.loop.now,
                        !.cv.breathingPhase =
                            IF RatLt(One, phase) THEN RatSub(phase, One) ELSE phase]
    IN  render(updateAnimations(W1))

captureSceneSnapshot(W, snapshot) ==
    [W EXCEPT !.cv.previousSceneSnapshot = snapshot]

\* the caller's onMidpoint / onComplete callbacks: what they observe
SceneEvent(W, ev, call, prePhase) ==
    [W EXCEPT !.obs.sceneEvents =
        Append(@, [ev |-> ev, call |-> call, gen |-> W.obs.sceneGen, prePhase |-> prePhase,
                   phase |-> W.cv.transitionPhase,
                   progress |-> W.cv.sceneTransitionProgress])]

\* the out phase has reached its end
OutPhaseDone_mut(progress) == RatLeq(Zero, progress)

OutPhaseDone(progress) == RatLeq(One, progress)

\* the in phase has reached its end
InPhaseDone(progress) == RatLeq(progress, Zero)

\* one run of startSceneTransition's frame closure c; halfDuration is c.dur / 2
SceneAnimate(W, c) ==
    LET elapsed == W.loop.now - c.startTime
        prePhase == W.cv.transitionPhase
    IN  IF prePhase = "out"
        THEN LET W1 == [W EXCEPT !.cv.sceneTransitionProgress =
                                     Rat(Min(2 * elapsed, c.dur), c.dur)]
                 W2 == IF OutPhaseDone(W1.cv.sceneTransitionProgress)
                       THEN LET W3 == [W1 EXCEPT !.cv.transitionPhase = "in"]
                            IN  IF c.onMidpoint # NULL
                                THEN SceneEvent(W3, "onMidpoint", c.onMidpoint, prePhase)
                                ELSE W3
                       ELSE W1
             IN  Unless(render(W2), LAMBDA V : RequestAnimationFrame(V, c))
        ELSE IF prePhase = "in"
        THEN LET W1 == [W EXCEPT !.cv.sceneTransitionProgress =
                                     Rat(c.dur - Min(2 * elapsed - c.dur, c.dur), c.dur)]
             IN  IF InPhaseDone(W1.cv.sceneTransitionProgress)
                 THEN LET W2 == [W1 EXCEPT !.cv.isTransitioning = FALSE,
                                           !.cv.transitionPhase = "none",
                                           !.cv.sceneTransitionProgress = Zero,
                                           !.cv.previousSceneSnapshot = NULL]
                      IN  IF c.onComplete # NULL
                          THEN SceneEvent(W2, "onComplete", c.onComplete, prePhase)
                          ELSE W2
                 ELSE Unless(render(W1), LAMBDA V : RequestAnimationFrame(V, c))
        ELSE Unless(render(W), LAMBDA V : RequestAnimationFrame(V, c))

startSceneTransition(W, onMidpoint, onComplete) ==
    IF W.cv.sceneTransitionStyle = "none"
    THEN LET W1 == IF onMidpoint # NULL
                   THEN SceneEvent(W, "onMidpoint", onMidpoint, "sync") ELSE W
         IN  IF onComplete # NULL
             THEN SceneEvent(W1, "onComplete", onComplete, "sync") ELSE W1
    ELSE LET W1 == captureSceneSnapshot(W, W.obs.sceneGen)
             W2 == [W1 EXCEPT !.cv.isTransitioning = TRUE,
                              !.cv.transitionPhase = "out",
                              !.cv.sceneTransitionProgress = Zero,
                              !.cv.transitionColor =
                                  IF W.cv.sceneTransitionStyle = "fadeToBlack" THEN "#000000"
                                  ELSE IF W.cv.sceneTransitionStyle = "fadeToWhite"
                                  THEN "#ffffff" ELSE @]
         IN  RequestAnimationFrame(W2, [kind |-> "scene", startTime |-> W2.loop.now,
                                        dur |-> W2.cv.sceneTransitionDuration,
                                        onMidpoint |-> onMidpoint,
                                        onComplete |-> onComplete])

BgEvent_mut(W, call) == W

\* the caller's onComplete callback of a background transition
BgEvent(W, call) ==
    [W EXCEPT !.obs.bgEvents =
        Append(@, [call |-> call, gen |-> W.obs.bgGen, at |-> W.loop.now,
                   background |-> W.cv.background])]

\* one run of startBackgroundTransition's frame closure c
BgAnimate(W, c) ==
    LET elapsed == W.loop.now - c.startTime
        W1 == [W EXCEPT !.cv.bgTransitionProgress =
                   Rat(Min(elapsed, W.cv.bgTransitionDuration), W.cv.bgTransitionDuration)]
    IN  IF RatLeq(One, W1.cv.bgTransitionProgress)
        THEN LET W2 == [W1 EXCEPT !.cv.isBgTransitioning = FALSE,
                                  !.cv.bgTransitionProgress = Zero,
                                  !.cv.previousBackground = NULL]
             IN  IF c.onComplete # NULL THEN BgEvent(W2, c.onComplete) ELSE W2
        ELSE Unless(render(W1), LAMBDA V : RequestAnimationFrame(V, c))

BgStyleIsNone_mut(style) == FALSE

\* this.bgTransitionStyle === 'none'
BgStyleIsNone(style) == style = "none"

startBackgroundTransition(W, newBackground, onComplete) ==
    IF BgStyleIsNone(W.cv.bgTransitionStyle)
    THEN LET W1 == [W EXCEPT !.cv.background = newBackground]
         IN  IF onComplete # NULL THEN BgEvent(W1, onComplete) ELSE W1
    ELSE LET W1 == [W EXCEPT !.cv.previousBackground = W.cv.background,
                             !.cv.background = newBackground,
                             !.cv.isBgTransitioning = TRUE,
                             !.cv.bgTransitionProgress = Zero]
         IN  RequestAnimationFrame(W1, [kind |-> "bg", startTime |-> W1.loop.now,
                                        onComplete |-> onComplete])

\* ------------------------------------------------------------------ state
World == [ds |-> ds, cv |-> cv, loop |-> loop, obs |-> obs]

Becomes(W) ==
    /\ ds' = W.ds
    /\ cv' = W.cv
    /\ loop' = W.loop
    /\ obs' = W.obs

\* an operation called by the owner of the engine, between event-loop tasks
Called(W, op) ==
    [W EXCEPT !.obs.opCount = @ + 1, !.obs.lastOp = op, !.obs.skipped = "no"]

CanCall == loop.frame = <<>> /\ obs.opCount < MaxOps

InitDialogueSystem ==
    [dialogueLines |-> <<>>,
     currentLineIndex |-> 0,
     fadeDuration |-> 300,
     fadeOpacity |-> One,
     isFading |-> FALSE,
     fadeTimeout |-> NULL,
     currentDialogue |-> [text |-> <<>>, visible |-> TRUE, typingSpeed |-> 50,
                          displayedText |-> <<>>,
                          isTyping |-> FALSE, typingComplete |-> FALSE],
     typingIndex |-> 0,
     typingTimeout |-> NULL,
     parsedSegments |-> <<>>,
     currentSegmentIndex |-> 0,
     onTypingUpdate |-> NULL,
     onTypingComplete |-> NULL,
     onAllLinesComplete |-> NULL]

InitCanvasEngine ==
    [background |-> NULL,
     sceneTransitionStyle |-> "fade",
     sceneTransitionDuration |-> 500,
     sceneTransitionProgress |-> Zero,
     isTransitioning |-> FALSE,
     transitionPhase |-> "none",
     transitionColor |-> "#000000",
     previousSceneSnapshot |-> NULL,
     bgTransitionStyle |-> "fade",
     bgTransitionDuration |-> 300,
     bgTransitionProgress |-> Zero,
     isBgTransitioning |-> FALSE,
     previousBackground |-> NULL,
     sprites |-> <<>>,
     selectedSprite |-> NULL,
     spriteAnimations |-> <<>>,
     animationDuration |-> 70,
     positionAnimations |-> <<>>,
     positionTransitionDuration |-> 300,
     positionTransitionEasing |-> "easeInOut",
     breathingPhase |-> Zero,
     lastFrameTime |-> 0,
     isDragging |-> FALSE,
     isResizing |-> FALSE,
     resizeHandle |-> NoHandle,
     dragOffset |-> [x |-> Zero, y |-> Zero],
     resizeStart |-> [x |-> Zero, y |-> Zero, scale |-> 100],
     cursor |-> "default",
     dialogue |-> NoDialogue,
     dialogueFadeOpacity |-> One]

InitLoop ==
    [now |-> 0, timers |-> {}, raf |-> <<>>, frame |-> <<>>, nextId |-> 1, frameTime |-> 0]

\* the App before a project is opened
InitApp ==
    [scenes |-> <<>>, currentSceneIndex |-> 0, selectedDialogueIndex |-> 0,
     previewPlaying |-> FALSE, previewInterval |-> NULL,
     lineDisplayDuration |-> 400,
     loading |-> {}, loads |-> 0, typingDuration |-> 0, advanceOf |-> {}, advanced |-> {},
     shown |-> [scene |-> 0, typingDuration |-> 0, totalDuration |-> 0],
     sceneState |-> [background |-> NULL, sprites |-> <<>>, dialogue |-> NoDialogue]]

\* new Timeline(): one scene, which is current; scenes are named by their ids
InitTimeline ==
    [scenes |-> <<1>>, currentSceneIndex |-> 0, nextId |-> 2,
     lastOp |-> "new", calls |-> 0, moved |-> [from |-> 0, to |-> 0]]

\* new HistoryManager(maxHistory)
InitHistory(maxHistory) ==
    [undoStack |-> <<>>, redoStack |-> <<>>, maxHistory |-> maxHistory,
     isRestoring |-> FALSE,
     ret |-> NULL, lastOp |-> "new", calls |-> 0, recorded |-> 0]

InitObs ==
    [opCount |-> 0, lastOp |-> "new", ret |-> FALSE,
     typingGen |-> 0, typingStart |-> 0, seqClean |-> FALSE, completedAt |-> -1,
     completes |-> 0, staleCallback |-> FALSE,
     superseded |-> FALSE, skipped |-> "no", skipText |-> <<>>, late |-> FALSE,
     allLinesComplete |-> 0, advGen |-> 0, fadeEvents |-> <<>>,
     sceneGen |-> 0, sceneEvents |-> <<>>, bgGen |-> 0, bgEvents |-> <<>>,
     painted |-> <<>>, dispatched |-> [name |-> "none", detail |-> NULL], squishCfg |-> <<>>, tweenCfg |-> <<>>,
     bgArg |-> NULL, text |-> <<>>, called |-> {}, segments |-> <<>>, cleanText |-> <<>>,
     cleanAgain |-> <<>>,
     pointer |-> [op |-> "none", n |-> 0, pos |-> [x |-> Zero, y |-> Zero]],
     inert |-> {},
     reentered |-> "no", reenterAt |-> 0, loopDead |-> FALSE,
     history |-> InitHistory(50),
     timeline |-> InitTimeline,
     app |-> InitApp,
     frame |-> [raised |-> FALSE, background |-> "colour", sprites |-> {},
                selection |-> FALSE, dialogue |-> FALSE, overlay |-> FALSE]]

Init ==
    /\ ds = InitDialogueSystem
    /\ cv = InitCanvasEngine
    /\ loop = InitLoop
    /\ obs = InitObs

\* the argument of the text functions is any of the input texts
InitText ==
    /\ ds = InitDialogueSystem
    /\ cv = InitCanvasEngine
    /\ loop = InitLoop
    /\ \E text \in TextInputs : obs = [InitObs EXCEPT !.text = text]

\* ---------------------------------------------------- event-loop actions
\* a millisecond passes; a timer never fires before it is due, it may fire late
Pass(limit) ==
    /\ loop.frame = <<>>
    /\ loop.now < limit
    /\ loop' = [loop EXCEPT !.now = @ + 1]
    /\ UNCHANGED <<ds, cv>>

\* the engine reads the clock only from timer and frame closures, so time
\* is let pass only while one of them is pending
Tick ==
    /\ loop.timers # {} \/ loop.raf # <<>>
    /\ Pass(MaxTime)
    /\ obs' = obs

\* a due typing timer fires
FireTimer ==
    /\ loop.frame = <<>>
    /\ \E t \in loop.timers :
          /\ t.kind \in {"char", "pause"}
          /\ t.due <= loop.now
          /\ Becomes(TypingTimer([World EXCEPT !.loop.timers = @ \ {t}], t.kind))

\* the browser starts a frame: the callbacks requested so far will run, in order
BeginFrame ==
    /\ loop.frame = <<>>
    /\ loop.raf # <<>>
    /\ loop.now > loop.frameTime
    /\ loop' = [loop EXCEPT !.frame = loop.raf, !.raf = <<>>, !.frameTime = loop.now]
    /\ UNCHANGED <<ds, cv, obs>>

PopFrame == [World EXCEPT !.loop.frame = Tail(@)]

FadeFrame ==
    /\ loop.frame # <<>>
    /\ Head(loop.frame).kind = "fade"
    /\ Becomes(FadeAnimate(PopFrame, Head(loop.frame)))

SceneFrame ==
    /\ loop.frame # <<>>
    /\ Head(loop.frame).kind = "scene"
    /\ Becomes(SceneAnimate(PopFrame, Head(loop.frame)))

BgFrame ==
    /\ loop.frame # <<>>
    /\ Head(loop.frame).kind = "bg"
    /\ Becomes(BgAnimate(PopFrame, Head(loop.frame)))

\* ------------------------------------------------ DialogueSystem actions
\* where the typewriter stands: no sequence started yet or stopped ("idle"),
\* waiting for a reveal timer ("char"), inside a pause delay ("pause"), Complete
TypingPoint ==
    IF \E t \in loop.timers : t.kind = "pause" THEN "pause"
    ELSE IF loop.timers # {} THEN "char"
    ELSE IF ds.currentDialogue.typingComplete THEN "complete"
    ELSE "idle"

SetFadeDuration ==
    /\ CanCall
    /\ \E d \in FadeDurations :
          Becomes([Called(World, "setFadeDuration") EXCEPT !.ds.fadeDuration = d])

SetOnAllLinesComplete ==
    /\ CanCall
    /\ ds.onAllLinesComplete = NULL
    /\ Becomes([Called(World, "onAllLinesComplete") EXCEPT !.ds.onAllLinesComplete = 1])

SetDialogueLines ==
    /\ CanCall
    /\ \E lines \in LineLists :
          Becomes(setDialogueLines(Called(World, "setDialogueLines"), lines))

StartTyping ==
    /\ CanCall
    /\ LET gen == obs.typingGen + 1
           W == [Called(World, "startTyping") EXCEPT
                    !.obs.typingGen = gen, !.obs.typingStart = loop.now,
                    !.obs.superseded = @ \/ TypingPoint = "char" \/ TypingPoint = "pause",
                    !.obs.seqClean = TRUE, !.obs.completedAt = -1, !.obs.completes = 0]
       IN  Becomes(startTyping(W, gen, gen))

SkipTyping ==
    /\ CanCall
    /\ LET W == skipTyping([Called(World, "skipTyping") EXCEPT !.obs.seqClean = FALSE])
       IN  Becomes([W EXCEPT !.obs.skipped = TypingPoint,
                             !.obs.skipText = getCleanText(W.ds.currentDialogue.text)])

StopTyping ==
    /\ CanCall
    /\ Becomes(stopTyping([Called(World, "stopTyping") EXCEPT !.obs.seqClean = FALSE]))

\* ---------------------------------------------- text functions, applied
\* segments = parseTextWithPauses(text)
ParseTextWithPauses ==
    /\ "parse" \notin obs.called
    /\ obs' = [obs EXCEPT !.segments = parseTextWithPauses(obs.text),
                          !.called = @ \cup {"parse"}]
    /\ UNCHANGED <<ds, cv, loop>>

\* cleanText = getCleanText(text)
GetCleanText ==
    /\ "clean" \notin obs.called
    /\ obs' = [obs EXCEPT !.cleanText = getCleanText(obs.text),
                          !.called = @ \cup {"clean"}]
    /\ UNCHANGED <<ds, cv, loop>>

\* cleanAgain = getCleanText(cleanText)
GetCleanTextAgain ==
    /\ "clean" \in obs.called
    /\ "again" \notin obs.called
    /\ obs' = [obs EXCEPT !.cleanAgain = getCleanText(obs.cleanText),
                          !.called = @ \cup {"again"}]
    /\ UNCHANGED <<ds, cv, loop>>

\* the text is made the current dialogue's text, once; the text functions
\* do not touch the dialogue, so this is run after them
SetText ==
    /\ CanCall
    /\ obs.lastOp = "new"
    /\ obs.called = {"parse", "clean", "again"}
    /\ Becomes(setText(Called(World, "setText"), obs.text))

\* the callbacks passed carry the number of the fade sequence they belong to
AdvanceToNextLine ==
    /\ CanCall
    /\ LET chain == obs.advGen + 1
           W == advanceToNextLine(Called(World, "advanceToNextLine"), chain, chain)
       IN  Becomes([W EXCEPT !.obs.advGen = IF W.obs.ret THEN chain ELSE @])

\* ------------------------------------------- playback: typing estimate
RECURSIVE SegmentsDuration(_, _)
SegmentsDuration(segments, speed) ==
    IF segments = <<>> THEN 0
    ELSE LET segment == Head(segments)
         IN  (IF segment.type = "text" THEN Len(segment.content) * speed
              ELSE segment.content)
             + SegmentsDuration(Tail(segments), speed)

RECURSIVE MoreLinesDuration(_, _, _)
MoreLinesDuration(dialogues, i, fade) ==
    IF i > Len(dialogues) THEN 0
    ELSE LET line == dialogues[i]
         IN  (IF line.visible /\ line.text # <<>>
              THEN fade + SegmentsDuration(parseTextWithPauses(line.text),
                                           IF line.typingSpeed # 0
                                           THEN line.typingSpeed ELSE 45)
              ELSE 0)
             + MoreLinesDuration(dialogues, i + 1, fade)

\* loadSceneToCanvas's typingDuration for playback with typing
TypingDurationEstimate(dialogue, dialogues, fade) ==
    IF dialogue.visible /\ dialogue.text # <<>>
    THEN SegmentsDuration(parseTextWithPauses(dialogue.text), dialogue.typingSpeed)
         + MoreLinesDuration(dialogues, 2, fade)
    ELSE 0

\* the scene of one line "Hi[[200]]!" typed at 50 ms per character
LoadHi ==
    /\ CanCall
    /\ ds.dialogueLines = <<>>
    /\ Becomes(setDialogueLines(Called(World, "setDialogueLines"), <<HiLine>>))

StartTypingHi ==
    /\ ds.dialogueLines # <<>>
    /\ obs.typingGen = 0
    /\ StartTyping

\* obs.late records that time went on while a due timer had not fired
WaitHi ==
    /\ obs.typingGen > 0
    /\ Pass(HiMaxTime)
    /\ obs' = [obs EXCEPT !.late = @ \/ (\E t \in loop.timers : t.due <= loop.now)]

NextHi ==
    \/ LoadHi
    \/ StartTypingHi
    \/ FireTimer
    \/ WaitHi

SpecHi == Init /\ [][NextHi]_vars

NextDialogue ==
    \/ SetFadeDuration
    \/ SetOnAllLinesComplete
    \/ SetDialogueLines
    \/ StartTyping
    \/ SkipTyping
    \/ StopTyping
    \/ AdvanceToNextLine
    \/ FireTimer
    \/ Tick
    \/ BeginFrame
    \/ FadeFrame

SpecDialogue == Init /\ [][NextDialogue]_vars

\* a caller that starts a line fade or replaces the lines only between fades
AdvanceToNextLineIdle ==
    /\ ~ds.isFading
    /\ AdvanceToNextLine

SetDialogueLinesIdle ==
    /\ ~ds.isFading
    /\ SetDialogueLines

NextLineFade ==
    \/ SetFadeDuration
    \/ SetDialogueLinesIdle
    \/ AdvanceToNextLineIdle
    \/ StartTyping
    \/ FireTimer
    \/ Tick
    \/ BeginFrame
    \/ FadeFrame

SpecLineFade == Init /\ [][NextLineFade]_vars

\* ------------------------------------------------ CanvasEngine actions
SetSceneTransitionStyle ==
    /\ CanCall
    /\ \E style \in SceneStyles :
          /\ style # cv.sceneTransitionStyle
          /\ Becomes([Called(World, "setSceneTransitionStyle")
                         EXCEPT !.cv.sceneTransitionStyle = style])

SetSceneTransitionDuration ==
    /\ CanCall
    /\ \E d \in SceneDurations :
          /\ d # cv.sceneTransitionDuration
          /\ Becomes([Called(World, "setSceneTransitionDuration")
                         EXCEPT !.cv.sceneTransitionDuration = d])

\* the callbacks passed carry the number of the call they belong to
StartSceneTransition ==
    /\ CanCall
    /\ LET call == obs.sceneGen + 1
           W == [Called(World, "startSceneTransition") EXCEPT !.obs.sceneGen = call]
       IN  Becomes(startSceneTransition(W, call, call))

\* a caller that starts a scene transition only when none is active
StartSceneTransitionIdle ==
    /\ ~cv.isTransitioning
    /\ StartSceneTransition

NextScene ==
    \/ SetSceneTransitionStyle
    \/ SetSceneTransitionDuration
    \/ StartSceneTransition
    \/ Tick
    \/ BeginFrame
    \/ SceneFrame

SpecScene == Init /\ [][NextScene]_vars

NextSceneSingle ==
    \/ SetSceneTransitionStyle
    \/ SetSceneTransitionDuration
    \/ StartSceneTransitionIdle
    \/ Tick
    \/ BeginFrame
    \/ SceneFrame

SpecSceneSingle == Init /\ [][NextSceneSingle]_vars

SetBgTransitionStyle ==
    /\ CanCall
    /\ \E style \in BgStyles :
          /\ style # cv.bgTransitionStyle
          /\ Becomes([Called(World, "setBgTransitionStyle")
                         EXCEPT !.cv.bgTransitionStyle = style])

SetBgTransitionDuration ==
    /\ CanCall
    /\ \E d \in BgDurations :
          /\ d # cv.bgTransitionDuration
          /\ Becomes([Called(World, "setBgTransitionDuration")
                         EXCEPT !.cv.bgTransitionDuration = d])

StartBackgroundTransition ==
    /\ CanCall
    /\ \E newBackground \in Backgrounds :
          LET call == obs.bgGen + 1
              W == [Called(World, "startBackgroundTransition")
                       EXCEPT !.obs.bgGen = call, !.obs.bgArg = newBackground]
          IN  Becomes(startBackgroundTransition(W, newBackground, call))

NextBg ==
    \/ SetBgTransitionStyle
    \/ SetBgTransitionDuration
    \/ StartBackgroundTransition
    \/ Tick
    \/ BeginFrame
    \/ BgFrame

SpecBg == Init /\ [][NextBg]_vars

\* ------------------------------------------- CanvasEngine: sprite actions
SpriteIds == {1, 2}
SpriteScales == {20, 100}
SquishDurations == {2, 3}
TweenDurations == {2, 3}
EasingInputs == EasingNames \cup {"unknown"}

\* (fromX, fromY) -> (toX, toY)
Tweens ==
    { [fromX |-> RatOf(100), fromY |-> RatOf(100), toX |-> RatOf(106), toY |-> RatOf(88)],
      [fromX |-> RatOf(106), fromY |-> RatOf(88), toX |-> RatOf(100), toY |-> RatOf(100)] }

\* a sprite of the scene; w and h are image.width and image.height
SpriteData(id, scale) ==
    [id |-> id, x |-> RatOf(100), y |-> RatOf(100), scale |-> scale, w |-> 100, h |-> 100,
     image |-> "decoded"]

CanCallSprite == loop.frame = <<>> /\ obs.opCount < MaxSpriteOps

\* an operation on the sprites called by the owner of the engine
CalledSprite(W) == [W EXCEPT !.obs.opCount = @ + 1]

Present(spriteId) == Find(cv.sprites, spriteId) # 0

\* time passes; the animation loop is always waiting for its next frame
TickSprite ==
    /\ Pass(MaxSpriteTime)
    /\ obs' = obs

\* the browser runs the animation loop's frame callback
AnimationFrame ==
    /\ loop.frame = <<>>
    /\ loop.now > cv.lastFrameTime
    /\ LET W == [World EXCEPT !.obs.tweenCfg =
                    [id \in DOMAIN @ |-> [@[id] EXCEPT !.frames = Min(@ + 1, 2)]]]
       IN  Becomes(AnimationLoop(W))

\* ids are unique in a scene
AddSpriteOf(scales) ==
    /\ CanCallSprite
    /\ \E id \in SpriteIds, scale \in scales :
          /\ ~Present(id)
          /\ LET W == [CalledSprite(World) EXCEPT
                          !.obs.squishCfg = Put(@, id, cv.animationDuration)]
             IN  Becomes(addSprite(W, SpriteData(id, scale)))

AddSprite == AddSpriteOf({100})

TriggerSpriteAnimation ==
    /\ CanCallSprite
    /\ \E id \in SpriteIds :
          /\ Present(id)
          /\ LET W == [CalledSprite(World) EXCEPT
                          !.obs.squishCfg = Put(@, id, cv.animationDuration)]
             IN  Becomes(triggerSpriteAnimation(W, id))

\* the configuration in force at the trigger is remembered with the record;
\* tweens are run with the short durations only (the constructor's 300 ms
\* does not end within MaxTime and its quartic progress exceeds the integers)
TriggerPositionAnimation ==
    /\ CanCallSprite
    /\ cv.positionTransitionDuration \in TweenDurations
    /\ \E id \in SpriteIds, tw \in Tweens :
          /\ Present(id)
          /\ LET W == [CalledSprite(World) EXCEPT
                          !.obs.tweenCfg =
                              Put(@, id, [duration |-> cv.positionTransitionDuration,
                                          easing |-> cv.positionTransitionEasing,
                                          frames |-> 0])]
             IN  Becomes(triggerPositionAnimation(W, id, tw.fromX, tw.fromY,
                                                  tw.toX, tw.toY))

SetAnimationDuration ==
    /\ CanCallSprite
    /\ \E d \in SquishDurations :
          /\ d # cv.animationDuration
          /\ Becomes([CalledSprite(World)
                         EXCEPT !.cv.animationDuration = d])

SetPositionTransitionDuration ==
    /\ CanCallSprite
    /\ \E d \in TweenDurations :
          /\ d # cv.positionTransitionDuration
          /\ Becomes([CalledSprite(World)
                         EXCEPT !.cv.positionTransitionDuration = d])

SetPositionTransitionEasing ==
    /\ CanCallSprite
    /\ \E easing \in EasingInputs :
          /\ easing # cv.positionTransitionEasing
          /\ Becomes([CalledSprite(World)
                         EXCEPT !.cv.positionTransitionEasing = easing])

\* position tweens whose configuration is set between tweens only
SetPositionTransitionDurationIdle ==
    /\ DOMAIN cv.positionAnimations = {}
    /\ SetPositionTransitionDuration

SetPositionTransitionEasingIdle ==
    /\ DOMAIN cv.positionAnimations = {}
    /\ SetPositionTransitionEasing

\* a trigger for a sprite id that is not in the scene
TriggerSpriteAnimationAbsent ==
    /\ CanCallSprite
    /\ \E id \in SpriteIds :
          /\ ~Present(id)
          /\ LET W == [CalledSprite(World) EXCEPT !.obs.inert = @ \cup {<<"squish", id>>}]
             IN  Becomes(triggerSpriteAnimation(W, id))

TriggerPositionAnimationAbsent ==
    /\ CanCallSprite
    /\ cv.positionTransitionDuration \in TweenDurations
    /\ \E id \in SpriteIds, tw \in Tweens :
          /\ ~Present(id)
          /\ LET W == [CalledSprite(World) EXCEPT !.obs.inert = @ \cup {<<"position", id>>}]
             IN  Becomes(triggerPositionAnimation(W, id, tw.fromX, tw.fromY,
                                                  tw.toX, tw.toY))

\* animations are triggered for absent sprites only; sprites come and go
NextInert ==
    \/ AddSprite
    \/ SetAnimationDuration
    \/ SetPositionTransitionDuration
    \/ TriggerSpriteAnimationAbsent
    \/ TriggerPositionAnimationAbsent
    \/ TickSprite
    \/ AnimationFrame

SpecInert == Init /\ [][NextInert]_vars

NextTween ==
    \/ AddSprite
    \/ SetPositionTransitionDurationIdle
    \/ SetPositionTransitionEasingIdle
    \/ TriggerPositionAnimation
    \/ TickSprite
    \/ AnimationFrame

SpecTween == Init /\ [][NextTween]_vars

\* squish-stretch and position records, the durations set at any time
NextAnim ==
    \/ AddSprite
    \/ TriggerSpriteAnimation
    \/ TriggerPositionAnimation
    \/ SetAnimationDuration
    \/ SetPositionTransitionDuration
    \/ TickSprite
    \/ AnimationFrame

SpecAnim == Init /\ [][NextAnim]_vars

\* --------------------------------------- CanvasEngine: pointer and edits
Point(x, y) == [x |-> RatOf(x), y |-> RatOf(y)]

\* where the pointer goes: the sprite's centre, its bottom-right corner at
\* scale 20 and at scale 100, and places away from it
PointerPoints ==
    {Point(100, 100), Point(110, 110), Point(150, 150), Point(152, 151),
     Point(0, 0), Point(700, 700)}

ScaleEdits == {5, 10, 300, 400}

AddSpriteAnyScale == AddSpriteOf(SpriteScales)

\* a property edit: updateSprite(id, {scale})
UpdateSpriteScale ==
    /\ CanCallSprite
    /\ \E id \in SpriteIds, scale \in ScaleEdits :
          /\ Present(id)
          /\ Becomes(updateSprite(CalledSprite(World), id, [scale |-> scale]))

\* the pointer event the canvas element receives, the n-th operation
PointerEvent(W, op, pos) ==
    [CalledSprite(W) EXCEPT !.obs.pointer = [op |-> op, n |-> W.obs.opCount + 1, pos |-> pos]]

OnMouseDown ==
    /\ CanCallSprite
    /\ \E pos \in PointerPoints : Becomes(onMouseDown(PointerEvent(World, "down", pos), pos))

OnMouseMove ==
    /\ CanCallSprite
    /\ \E pos \in PointerPoints : Becomes(onMouseMove(PointerEvent(World, "move", pos), pos))

\* mouseup and mouseleave
OnMouseUp ==
    /\ CanCallSprite
    /\ \E pos \in PointerPoints : Becomes(onMouseUp(PointerEvent(World, "up", pos)))

NextSprites ==
    \/ AddSpriteAnyScale
    \/ UpdateSpriteScale
    \/ OnMouseDown
    \/ OnMouseMove
    \/ OnMouseUp

SpecSprites == Init /\ [][NextSprites]_vars

\* the same without property edits: the scale changes by resizing only
NextPointer ==
    \/ AddSpriteAnyScale
    \/ OnMouseDown
    \/ OnMouseMove
    \/ OnMouseUp

SpecPointer == Init /\ [][NextPointer]_vars

\* ------------------------------------------ CanvasEngine: the selection
\* loadSceneState(state): the sprites are dropped, the dialogue is taken
\* from the state, the background is dropped
loadSceneState(W, state) ==
    render([W EXCEPT !.cv.sprites = <<>>,
                     !.cv.dialogue = state.dialogue,
                     !.cv.background = NULL])

SceneStates ==
    {[background |-> NULL, sprites |-> <<>>, dialogue |-> d] :
        d \in {NoDialogue, [visible |-> TRUE]}}

RemoveSprite ==
    /\ CanCallSprite
    /\ \E id \in SpriteIds : Becomes(removeSprite(CalledSprite(World), id))

LoadSceneState ==
    /\ CanCallSprite
    /\ \E state \in SceneStates : Becomes(loadSceneState(CalledSprite(World), state))

\* sprites are added and removed, selected by pointer events, and scene
\* states are loaded
NextSelection ==
    \/ AddSpriteAnyScale
    \/ RemoveSprite
    \/ OnMouseDown
    \/ OnMouseUp
    \/ LoadSceneState

SpecSelection == Init /\ [][NextSelection]_vars

\* ------------------------------------------- CanvasEngine: painting a scene
\* the image of a sprite handed to the canvas: decoded, not decoded yet (its
\* width and height are 0), or missing
SpriteImages == {"decoded", "undecoded", "missing"}

setBackground(W, image) == render([W EXCEPT !.cv.background = image])

\* CanvasEngine.setDialogue
canvasSetDialogue(W, dialogueData) == render([W EXCEPT !.cv.dialogue = dialogueData])

AddSpriteImage ==
    /\ CanCallSprite
    /\ \E id \in SpriteIds, image \in SpriteImages :
          /\ ~Present(id)
          /\ LET size == IF image = "decoded" THEN 100 ELSE 0
             IN  Becomes(addSprite(CalledSprite(World),
                                   [SpriteData(id, 100) EXCEPT !.image = image,
                                                               !.w = size, !.h = size]))

SetBackground ==
    /\ CanCallSprite
    /\ \E image \in Backgrounds \cup {NULL} :
          Becomes(setBackground(CalledSprite(World), image))

SetCanvasDialogue ==
    /\ CanCallSprite
    /\ \E dialogueData \in {NoDialogue} \cup [visible : BOOLEAN] :
          Becomes(canvasSetDialogue(CalledSprite(World), dialogueData))

SelectSprite ==
    /\ CanCallSprite
    /\ \E id \in SpriteIds \cup {NULL} :
          /\ id # NULL => Present(id)
          /\ Becomes(selectSprite(CalledSprite(World), id))

NextRender ==
    \/ AddSpriteImage
    \/ SetBackground
    \/ SetCanvasDialogue
    \/ SelectSprite
    \/ StartSceneTransition
    \/ Tick
    \/ BeginFrame
    \/ SceneFrame

SpecRender == Init /\ [][NextRender]_vars

\* ------------------------------------------------ text functions: the runs
\* the typewriter is taken to Complete for the text that was set
SkipTypingText ==
    /\ obs.lastOp = "setText"
    /\ SkipTyping

NextText ==
    \/ ParseTextWithPauses
    \/ GetCleanText
    \/ GetCleanTextAgain
    \/ SetText
    \/ SkipTypingText

SpecText == InitText /\ [][NextText]_vars

\* ------------------------------------------- typing: reentrant callbacks
ReenterPoints == {1, 2}

\* startTyping with an onUpdate callback that calls back into the system
StartTypingReentrant ==
    /\ CanCall
    /\ \E closure \in {SkipClosure, StopClosure}, k \in ReenterPoints :
          LET gen == obs.typingGen + 1
              W == [Called(World, "startTyping") EXCEPT
                       !.obs.typingGen = gen, !.obs.typingStart = loop.now,
                       !.obs.completedAt = -1, !.obs.completes = 0,
                       !.obs.reentered = "no", !.obs.reenterAt = k]
          IN  Becomes(startTyping(W, closure, gen))

NextReentrant ==
    \/ SetDialogueLines
    \/ StartTypingReentrant
    \/ FireTimer
    \/ Tick

SpecReentrant == Init /\ [][NextReentrant]_vars

\* ========================================================= HistoryManager
\* h is the HistoryManager; ret is what the last call returned, calls and
\* recorded count the calls made and the records that took effect
HistoryCalled(h, op) == [h EXCEPT !.lastOp = op, !.calls = @ + 1, !.ret = NULL]

Snapshot(action, state) == [action |-> action, state |-> state]

record_mut(h, action, state) ==
    IF h.isRestoring THEN h
    ELSE [h EXCEPT !.undoStack = Append(@, Snapshot(action, state)),
                   !.redoStack = <<>>,
                   !.recorded = @ + 1]

record(h, action, state) ==
    IF h.isRestoring THEN h
    ELSE [h EXCEPT !.undoStack =
                       IF Len(@) + 1 > h.maxHistory
                       THEN Tail(Append(@, Snapshot(action, state)))
                       ELSE Append(@, Snapshot(action, state)),
                   !.redoStack = <<>>,
                   !.recorded = @ + 1]

undo(h, currentState) ==
    IF Len(h.undoStack) = 0 THEN h
    ELSE [h EXCEPT !.redoStack = Append(@, Snapshot("redo", currentState)),
                   !.undoStack = SubSeq(@, 1, Len(@) - 1),
                   !.ret = h.undoStack[Len(h.undoStack)].state]

redo(h, currentState) ==
    IF Len(h.redoStack) = 0 THEN h
    ELSE [h EXCEPT !.undoStack = Append(@, Snapshot("undo", currentState)),
                   !.redoStack = SubSeq(@, 1, Len(@) - 1),
                   !.ret = h.redoStack[Len(h.redoStack)].state]

setRestoring(h, restoring) == [h EXCEPT !.isRestoring = restoring]

\* the states the application saves, and the sizes the manager is made with
HistoryStates == {1, 2}
MaxHistories == {1, 2}

HistoryInit ==
    /\ ds = InitDialogueSystem
    /\ cv = InitCanvasEngine
    /\ loop = InitLoop
    /\ \E maxHistory \in MaxHistories :
          obs = [InitObs EXCEPT !.history = InitHistory(maxHistory)]

HistoryBecomes(h) ==
    /\ obs' = [obs EXCEPT !.history = h]
    /\ UNCHANGED <<ds, cv, loop>>

CanCallHistory == obs.history.calls < MaxHistoryOps

Record ==
    /\ CanCallHistory
    /\ \E state \in HistoryStates :
          HistoryBecomes(record(HistoryCalled(obs.history, "record"), "edit", state))

Undo ==
    /\ CanCallHistory
    /\ \E state \in HistoryStates :
          HistoryBecomes(undo(HistoryCalled(obs.history, "undo"), state))

Redo ==
    /\ CanCallHistory
    /\ \E state \in HistoryStates :
          HistoryBecomes(redo(HistoryCalled(obs.history, "redo"), state))

SetRestoring ==
    /\ CanCallHistory
    /\ \E restoring \in BOOLEAN :
          /\ restoring # obs.history.isRestoring
          /\ HistoryBecomes(setRestoring(HistoryCalled(obs.history, "setRestoring"), restoring))

NextHistory ==
    \/ Record
    \/ Undo
    \/ Redo
    \/ SetRestoring

SpecHistory == HistoryInit /\ [][NextHistory]_vars

\* =============================================================== Timeline
\* array.splice(index, 1) and array.splice(index, 0, item), index from 0
SpliceOut(s, index) == SubSeq(s, 1, index) \o SubSeq(s, index + 2, Len(s))
SpliceIn(s, index, item) == SubSeq(s, 1, index) \o <<item>> \o SubSeq(s, index + 1, Len(s))

TimelineCalled(t, op) == [t EXCEPT !.lastOp = op, !.calls = @ + 1]

addScene(t) ==
    [t EXCEPT !.scenes = Append(@, t.nextId),
              !.currentSceneIndex = Len(t.scenes),
              !.nextId = @ + 1]

deleteScene(t) ==
    IF Len(t.scenes) <= 1 THEN t
    ELSE [t EXCEPT !.scenes = SpliceOut(@, t.currentSceneIndex),
                   !.currentSceneIndex =
                       IF @ >= Len(t.scenes) - 1 THEN Len(t.scenes) - 2 ELSE @]

setCurrentScene(t, index) ==
    IF index >= 0 /\ index < Len(t.scenes)
    THEN [t EXCEPT !.currentSceneIndex = index]
    ELSE t

moveScene_mut(t, fromIndex, toIndex) ==
    IF fromIndex < 0 \/ fromIndex >= Len(t.scenes) THEN t
    ELSE IF toIndex < 0 \/ toIndex >= Len(t.scenes) THEN t
    ELSE [t EXCEPT !.scenes = SpliceIn(SpliceOut(@, fromIndex), toIndex,
                                       t.scenes[fromIndex + 1]),
                   !.currentSceneIndex =
                       IF @ = fromIndex THEN toIndex
                       ELSE IF fromIndex < @ /\ toIndex >= @ THEN @ - 1
                       ELSE @]

moveScene(t, fromIndex, toIndex) ==
    IF fromIndex < 0 \/ fromIndex >= Len(t.scenes) THEN t
    ELSE IF toIndex < 0 \/ toIndex >= Len(t.scenes) THEN t
    ELSE [t EXCEPT !.scenes = SpliceIn(SpliceOut(@, fromIndex), toIndex,
                                       t.scenes[fromIndex + 1]),
                   !.currentSceneIndex =
                       IF @ = fromIndex THEN toIndex
                       ELSE IF fromIndex < @ /\ toIndex >= @ THEN @ - 1
                       ELSE IF fromIndex > @ /\ toIndex <= @ THEN @ + 1
                       ELSE @]

\* the indices a caller passes: one below and one above every valid index
SceneIndices == -1 .. MaxTimelineOps

TimelineBecomes(t) ==
    /\ obs' = [obs EXCEPT !.timeline = t]
    /\ UNCHANGED <<ds, cv, loop>>

CanCallTimeline == obs.timeline.calls < MaxTimelineOps

AddScene ==
    /\ CanCallTimeline
    /\ TimelineBecomes(addScene(TimelineCalled(obs.timeline, "addScene")))

DeleteScene ==
    /\ CanCallTimeline
    /\ TimelineBecomes(deleteScene(TimelineCalled(obs.timeline, "deleteScene")))

SetCurrentScene ==
    /\ CanCallTimeline
    /\ \E index \in SceneIndices :
          TimelineBecomes(setCurrentScene(TimelineCalled(obs.timeline, "setCurrentScene"), index))

MoveScene ==
    /\ CanCallTimeline
    /\ \E fromIndex \in SceneIndices, toIndex \in SceneIndices :
          TimelineBecomes(moveScene(
              [TimelineCalled(obs.timeline, "moveScene")
                   EXCEPT !.moved = [from |-> fromIndex, to |-> toIndex]],
              fromIndex, toIndex))

NextTimeline ==
    \/ AddScene
    \/ DeleteScene
    \/ SetCurrentScene
    \/ MoveScene

SpecTimeline == Init /\ [][NextTimeline]_vars

\* ==================================================================== App
\* The application owns the timeline (the scenes), the DialogueSystem and the
\* CanvasEngine. Its state is kept in obs.app: timeline.scenes and
\* timeline.currentSceneIndex (0-based), selectedDialogueIndex, the preview
\* flags, and the loads that wait for their background image.
RuntimeFields == {"displayedText", "isTyping", "typingComplete"}

\* const { displayedText, isTyping, typingComplete, ...clean } = d
Omit(d, fields) == [f \in (DOMAIN d) \ fields |-> d[f]]

\* timeline.getCurrentScene(): a 1-based position in scenes, 0 for null
getCurrentScene(W) ==
    IF W.obs.app.currentSceneIndex + 1 \in DOMAIN W.obs.app.scenes
    THEN W.obs.app.currentSceneIndex + 1 ELSE 0

\* DialogueSystem.getLineDisplayDuration / setLineDisplayDuration
getLineDisplayDuration(W) == W.obs.app.lineDisplayDuration

setLineDisplayDuration(W, duration) == [W EXCEPT !.obs.app.lineDisplayDuration = duration]

setDialogueFadeOpacity(W, opacity) == render([W EXCEPT !.cv.dialogueFadeOpacity = opacity])

\* this.canvas.setDialogue(dialogue) with the DialogueSystem's current dialogue
ShowCurrent(W) == canvasSetDialogue(W, W.ds.currentDialogue)

\* dialogue.displayedText = this.dialogueSystem.getCleanText(text || '')
ShowCleanText(W, text) ==
    ShowCurrent([W EXCEPT !.ds.currentDialogue.displayedText = getCleanText(text)])

\* the onUpdate closure the App passes to startTyping
AppOnTypingUpdate(W) == ShowCurrent(setDialogueFadeOpacity(W, W.ds.fadeOpacity))

\* the onComplete closure the App passes to startTyping: the line stays for
\* the display duration, then advanceDialogueLine runs. obs.app.advanceOf
\* notes which load of a scene the timer was scheduled under.
AppOnTypingComplete(W) ==
    [SetTimeout(W, "advance", getLineDisplayDuration(W))
        EXCEPT !.obs.app.advanceOf = @ \cup {<<W.loop.nextId, W.obs.app.loads>>}]

\* advanceDialogueLine's onFadeOut closure (canvas.setCharacterChanging is
\* a flag of the renderer only)
AppOnFadeOut(W) == ShowCurrent(setDialogueFadeOpacity(W, W.ds.fadeOpacity))

\* advanceDialogueLine's onFadeIn closure
AppOnFadeIn(W) ==
    startTyping(setDialogueFadeOpacity(W, W.ds.fadeOpacity), AppClosure, AppClosure)

\* advanceDialogueLine(), run by the timer that load number `by` scheduled;
\* obs.app.advanced notes the calls of advanceToNextLine
advanceDialogueLine(W, by) ==
    IF ~W.obs.app.previewPlaying THEN W
    ELSE advanceToNextLine([W EXCEPT !.obs.app.advanced =
                                         @ \cup {[by |-> by, on |-> W.obs.app.loads]}],
                           AppClosure, AppClosure)

SaveScene(W, scene) ==
    [W EXCEPT !.obs.app.scenes[scene].background = W.cv.background,
              !.obs.app.scenes[scene].sprites =
                  [i \in DOMAIN W.cv.sprites |->
                      [id |-> W.cv.sprites[i].id, x |-> W.cv.sprites[i].x,
                       y |-> W.cv.sprites[i].y, scale |-> W.cv.sprites[i].scale]],
              !.obs.app.scenes[scene].fadeDuration = W.ds.fadeDuration,
              !.obs.app.scenes[scene].lineDisplayDuration = getLineDisplayDuration(W)]

saveCurrentSceneState(W) ==
    IF getCurrentScene(W) = 0 THEN W ELSE SaveScene(W, getCurrentScene(W))

\* Math.max(0, Math.min(index, length - 1))
ClampIndex(index, length) ==
    IF index > length - 1 THEN (IF length - 1 < 0 THEN 0 ELSE length - 1)
    ELSE IF index < 0 THEN 0 ELSE index

SelectLine(W, line) ==
    IF line # UNDEFINED THEN ShowCleanText(setDialogue(W, line), line.text) ELSE W

selectDialogueLine(W, index) ==
    IF getCurrentScene(W) = 0 THEN W
    ELSE SelectLine([W EXCEPT !.obs.app.selectedDialogueIndex =
                        ClampIndex(index, Len(W.obs.app.scenes[getCurrentScene(W)].dialogues))],
                    LineAt(W.obs.app.scenes[getCurrentScene(W)].dialogues,
                           ClampIndex(index,
                                      Len(W.obs.app.scenes[getCurrentScene(W)].dialogues))))

\* the selected line of scene with the clean updates merged in
UpdatedLine(W, scene, updates) ==
    Omit(Spread(W.obs.app.scenes[scene].dialogues[W.obs.app.selectedDialogueIndex + 1],
                Omit(updates, RuntimeFields)),
         RuntimeFields)

StoreLine(W, scene, currentLine) ==
    saveCurrentSceneState(
        ShowCleanText(
            setDialogue([W EXCEPT !.obs.app.scenes[scene].dialogues[
                                      W.obs.app.selectedDialogueIndex + 1] = currentLine],
                        currentLine),
            currentLine.text))

updateCurrentDialogueLine(W, updates) ==
    IF getCurrentScene(W) = 0 THEN W
    ELSE IF W.obs.app.scenes[getCurrentScene(W)].dialogues = <<>> THEN W
    ELSE StoreLine(W, getCurrentScene(W), UpdatedLine(W, getCurrentScene(W), updates))

\* CanvasEngine.getSceneState(): the scene state for saving
getSceneState(W) ==
    [background |-> W.cv.background,
     sprites |-> [i \in DOMAIN W.cv.sprites |->
                     [id |-> W.cv.sprites[i].id, x |-> W.cv.sprites[i].x,
                      y |-> W.cv.sprites[i].y, scale |-> W.cv.sprites[i].scale]],
     dialogue |-> W.cv.dialogue]

\* spriteManager.getSprite(id): the sprite asset
getSprite(id) == SpriteData(id, 100)

\* { ...sprite, x, y, scale, opacity } of the scene's sprite data
SceneSpriteOf(spriteData) ==
    [getSprite(spriteData.id) EXCEPT !.x = spriteData.x, !.y = spriteData.y,
                                     !.scale = spriteData.scale]

PushSprite(W, sceneSprite) == [W EXCEPT !.cv.sprites = Append(@, sceneSprite)]

\* the sprite moved: it starts at its previous position and is tweened
PushMoved(W, sceneSprite, prevSprite) ==
    triggerSpriteAnimation(
        triggerPositionAnimation(
            PushSprite(W, [sceneSprite EXCEPT !.x = prevSprite.x, !.y = prevSprite.y]),
            sceneSprite.id, prevSprite.x, prevSprite.y, sceneSprite.x, sceneSprite.y),
        sceneSprite.id)

\* one round of the sprites loop; prev is the position of the sprite in
\* previousSprites, 0 when it was not in the previous scene (the assets
\* carry no characterId, so it is matched by id)
LoadSprite(W, sceneSprite, prev, previousSprites, triggerAnimations) ==
    IF triggerAnimations /\ prev # 0
    THEN IF previousSprites[prev].x # sceneSprite.x \/ previousSprites[prev].y # sceneSprite.y
         THEN PushMoved(W, sceneSprite, previousSprites[prev])
         ELSE PushSprite(W, sceneSprite)
    ELSE IF triggerAnimations
    THEN triggerSpriteAnimation(PushSprite(W, sceneSprite), sceneSprite.id)
    ELSE PushSprite(W, sceneSprite)

\* the sprites loop of loadSceneToCanvas
RECURSIVE LoadSprites(_, _, _, _)
LoadSprites(W, spriteDatas, previousSprites, triggerAnimations) ==
    IF spriteDatas = <<>> THEN W
    ELSE LoadSprites(LoadSprite(W, SceneSpriteOf(Head(spriteDatas)),
                                Find(previousSprites, Head(spriteDatas).id),
                                previousSprites, triggerAnimations),
                     Tail(spriteDatas), previousSprites, triggerAnimations)

\* the line loadSceneToCanvas gives a scene that has none
DefaultLine == [text |-> <<>>, visible |-> FALSE, typingSpeed |-> 45]

PostDelay == 500

\* scene.lineDisplayDuration || 400
DefaultLineDisplayDuration == 400

\* Math.max(scene.duration, typingDuration + 500)
TotalDuration(duration, typingDuration) ==
    IF duration >= typingDuration + PostDelay THEN duration ELSE typingDuration + PostDelay

\* playNextPreviewScene's continuation of the load of scene: the timer that
\* ends the scene's stay on screen
PreviewThen(W, scene, typingDuration) ==
    [SetTimeout(W, IF W.obs.app.currentSceneIndex < Len(W.obs.app.scenes) - 1
                   THEN "previewNext" ELSE "previewEnd",
                TotalDuration(W.obs.app.scenes[scene].duration, typingDuration))
        EXCEPT !.obs.app.previewInterval = W.loop.nextId,
               !.obs.app.shown =
                   [scene |-> scene, typingDuration |-> typingDuration,
                    totalDuration |-> TotalDuration(W.obs.app.scenes[scene].duration,
                                                    typingDuration)]]

\* the caller's continuation of a load (p.then) with the load's result,
\* which obs.app.typingDuration holds
LoadThen(W, p) ==
    IF p.then = "preview" THEN PreviewThen(W, p.scene, W.obs.app.typingDuration) ELSE W

SelectUnless(W, scene, skipDialogueSelect) ==
    IF ~skipDialogueSelect /\ W.obs.app.scenes[scene].dialogues # <<>>
    THEN selectDialogueLine(W, W.obs.app.selectedDialogueIndex)
    ELSE W

updateDialogueUI(W, scene, skipDialogueSelect) ==
    SelectUnless(setLineDisplayDuration(W,
                     IF W.obs.app.scenes[scene].lineDisplayDuration # 0
                     THEN W.obs.app.scenes[scene].lineDisplayDuration
                     ELSE DefaultLineDisplayDuration),
                 scene, skipDialogueSelect)

\* the background part of loadSceneToCanvas, after the await
LoadBackground(W, p) ==
    IF /\ W.obs.app.scenes[p.scene].background # NULL
       /\ p.triggerAnimations /\ p.bgChanged
       /\ W.cv.bgTransitionStyle # "none"
       /\ p.previousBackground # NULL
    THEN startBackgroundTransition(W, p.previousBackground, NULL)
    ELSE W

\* dialogues.map(d => clean)
CleanDialogues(dialogues) == [i \in DOMAIN dialogues |-> Omit(dialogues[i], RuntimeFields)]

\* the dialogues of the scene are given to the DialogueSystem
LoadDialogues(W, scene) ==
    setDialogueLines(
        [W EXCEPT !.obs.app.scenes[scene].dialogues = IF @ = <<>> THEN <<DefaultLine>> ELSE @,
                  !.ds.fadeDuration = IF W.obs.app.scenes[scene].fadeDuration # 0
                                      THEN W.obs.app.scenes[scene].fadeDuration ELSE @,
                  !.obs.app.selectedDialogueIndex = 0],
        CleanDialogues(IF W.obs.app.scenes[scene].dialogues = <<>> THEN <<DefaultLine>>
                       ELSE W.obs.app.scenes[scene].dialogues))

\* the typing estimate is taken and the first line is typed, or shown whole;
\* dialogue is getDialogue()'s copy of the current dialogue
ShowDialogue(W, p, dialogue) ==
    IF p.startTyping /\ dialogue.visible /\ dialogue.text # <<>>
    THEN startTyping(
             canvasSetDialogue(
                 [W EXCEPT !.obs.app.typingDuration =
                     TypingDurationEstimate(dialogue, W.obs.app.scenes[p.scene].dialogues,
                                            W.ds.fadeDuration)],
                 [dialogue EXCEPT !.displayedText = <<>>]),
             AppClosure, AppClosure)
    ELSE canvasSetDialogue([W EXCEPT !.obs.app.typingDuration = 0],
                           [dialogue EXCEPT !.displayedText = getCleanText(dialogue.text)])

TypeDialogue(W, p) == ShowDialogue(W, p, W.ds.currentDialogue)

\* the scene transition part of loadSceneToCanvas
LoadTransition(W, p) ==
    IF /\ p.triggerAnimations
       /\ W.cv.sceneTransitionStyle # "none"
       /\ p.previousSprites # <<>>
    THEN startSceneTransition(W, NULL, NULL)
    ELSE W

\* loadSceneToCanvas after its await: p is what the function holds in its
\* locals; loaded tells whether the image's onload or its onerror resolved
\* the promise (neither when the scene has no background)
loadSceneRest(W, p, loaded) ==
    LoadThen(
        render(
            LoadTransition(
                updateDialogueUI(
                    TypeDialogue(
                        LoadDialogues(
                            LoadSprites(
                                LoadBackground(
                                    IF loaded
                                    THEN setBackground(W, W.obs.app.scenes[p.scene].background)
                                    ELSE W,
                                    p),
                                W.obs.app.scenes[p.scene].sprites,
                                p.previousSprites, p.triggerAnimations),
                            p.scene),
                        p),
                    p.scene, p.startTyping),
                p)),
        p)

\* what loadSceneToCanvas keeps in its locals across the await
LoadLocals(W, scene, triggerAnimations, withTyping, then) ==
    [scene |-> scene, triggerAnimations |-> triggerAnimations,
     startTyping |-> withTyping, then |-> then, load |-> W.obs.app.loads + 1,
     previousSprites |-> W.cv.sprites,
     previousBackground |-> W.cv.background,
     bgChanged |-> W.obs.app.scenes[scene].background # W.cv.background]

\* the current state is cleared
ClearScene(W, p) ==
    stopTyping([(IF p.triggerAnimations /\ W.cv.sceneTransitionStyle # "none"
                 THEN captureSceneSnapshot(W, p.load) ELSE W)
                   EXCEPT !.cv.sprites = <<>>,
                          !.cv.selectedSprite = NULL,
                          !.cv.background = NULL,
                          !.cv.dialogue = NoDialogue,
                          !.obs.app.loads = p.load])

\* the await: the load waits for the image when the scene has a background
AwaitBackground(W, p) ==
    IF W.obs.app.scenes[p.scene].background # NULL
    THEN [W EXCEPT !.obs.app.loading = @ \cup {p}]
    ELSE loadSceneRest(W, p, FALSE)

\* loadSceneToCanvas(scene, triggerAnimations, startTyping) up to its await;
\* scene is a position in timeline.scenes, 0 for null
loadSceneToCanvas(W, scene, triggerAnimations, withTyping, then) ==
    IF scene = 0
    THEN LoadThen([W EXCEPT !.obs.app.typingDuration = 0], [then |-> then, scene |-> scene])
    ELSE AwaitBackground(
             ClearScene(W, LoadLocals(W, scene, triggerAnimations, withTyping, then)),
             LoadLocals(W, scene, triggerAnimations, withTyping, then))

playNextPreviewScene(W) ==
    IF ~W.obs.app.previewPlaying THEN W
    ELSE loadSceneToCanvas(W, getCurrentScene(W), TRUE, TRUE, "preview")

startPreviewPlayback(W) ==
    playNextPreviewScene([W EXCEPT !.obs.app.previewPlaying = TRUE])

stopPreviewPlayback(W) ==
    IF W.obs.app.previewInterval # NULL
    THEN [ClearTimeout(W, W.obs.app.previewInterval)
             EXCEPT !.obs.app.previewPlaying = FALSE, !.obs.app.previewInterval = NULL]
    ELSE [W EXCEPT !.obs.app.previewPlaying = FALSE]

\* timeline.nextScene()
nextScene(W) ==
    IF W.obs.app.currentSceneIndex < Len(W.obs.app.scenes) - 1
    THEN [W EXCEPT !.obs.app.currentSceneIndex = @ + 1] ELSE W

\* the closure of an App timer
AppTimer(W, t) ==
    IF t.kind = "previewNext" THEN playNextPreviewScene(nextScene(W))
    ELSE IF t.kind = "previewEnd" THEN stopPreviewPlayback(W)
    ELSE advanceDialogueLine(
             [W EXCEPT !.obs.app.advanceOf = {a \in @ : a[1] # t.id}],
             (CHOOSE a \in W.obs.app.advanceOf : a[1] = t.id)[2])

\* ---------------------------------------------------------- App: inputs
Hidden(text, speed) == [text |-> text, typingSpeed |-> speed, visible |-> FALSE]

SceneSprite(id, x) == [id |-> id, x |-> RatOf(x), y |-> RatOf(100), scale |-> 100]

\* a scene of the timeline; fadeDuration and lineDisplayDuration are 0 when
\* the scene does not carry them
Scene(duration, background, sprites, dialogues) ==
    [duration |-> duration, background |-> background, sprites |-> sprites,
     dialogues |-> dialogues, fadeDuration |-> 2, lineDisplayDuration |-> 0]

\* the projects opened: timeline.scenes
Projects ==
    { <<Scene(10, NULL, <<>>, <<Line(TxtAb, 1), Line(TxtAb, 1)>>),
        Scene(10, NULL, <<>>, <<Line(TxtAb, 1), Line(TxtPause, 1)>>)>>,
      <<Scene(10, 1, <<SceneSprite(1, 100)>>,
              <<Line(TxtAb, 1), Hidden(TxtAb, 1), Line(TxtAb, 1)>>),
        Scene(10, 2, <<SceneSprite(1, 106)>>, <<>>)>>,
      <<Scene(10, NULL, <<SceneSprite(2, 100)>>, <<Hidden(TxtAb, 1)>>)>> }

\* what the dialogue editor passes to updateCurrentDialogueLine
LineUpdates ==
    { [text |-> TxtPause],
      [visible |-> FALSE],
      [text |-> TxtAb, displayedText |-> TxtAb, isTyping |-> FALSE,
       typingComplete |-> TRUE] }

\* the time between two frames of the browser
FrameSteps == {100}

\* --------------------------------------------------------- App: actions
AppReady == obs.app.scenes # <<>>

\* timeline.import(projectData.timeline); loadInitialScene()
OpenProject ==
    /\ CanCall
    /\ ~AppReady
    /\ \E project \in Projects :
          Becomes(loadSceneToCanvas(
                      [Called(World, "openProject") EXCEPT !.obs.app.scenes = project,
                                                           !.obs.app.currentSceneIndex = 0],
                      1, FALSE, FALSE, "none"))

StartPreviewPlayback ==
    /\ CanCall
    /\ AppReady
    /\ ~obs.app.previewPlaying
    /\ Becomes(startPreviewPlayback(Called(World, "startPreviewPlayback")))

StopPreviewPlayback ==
    /\ CanCall
    /\ obs.app.previewPlaying
    /\ Becomes(stopPreviewPlayback(Called(World, "stopPreviewPlayback")))

UpdateCurrentDialogueLine ==
    /\ CanCall
    /\ AppReady
    /\ \E updates \in LineUpdates :
          Becomes(updateCurrentDialogueLine(Called(World, "updateCurrentDialogueLine"),
                                            updates))

\* sceneState = canvas.getSceneState()
GetSceneState ==
    /\ CanCall
    /\ AppReady
    /\ Becomes([Called(World, "getSceneState")
                   EXCEPT !.obs.app.sceneState = getSceneState(World)])

\* the background image of a waiting load has loaded
ImageLoaded ==
    /\ loop.frame = <<>>
    /\ \E p \in obs.app.loading :
          Becomes(loadSceneRest([World EXCEPT !.obs.app.loading = @ \ {p}], p, TRUE))

\* the background image of a waiting load failed to load
ImageError ==
    /\ loop.frame = <<>>
    /\ \E p \in obs.app.loading :
          Becomes(loadSceneRest([World EXCEPT !.obs.app.loading = @ \ {p}], p, FALSE))

\* a due timer of the App fires
FireAppTimer ==
    /\ loop.frame = <<>>
    /\ \E t \in loop.timers :
          /\ t.kind \in {"advance", "previewNext", "previewEnd"}
          /\ t.due <= loop.now
          /\ Becomes(AppTimer([World EXCEPT !.loop.timers = @ \ {t}], t))

\* nothing is pending but timers: time passes until the next one is due
Elapse ==
    /\ loop.frame = <<>>
    /\ loop.raf = <<>>
    /\ obs.app.loading = {}
    /\ \E t \in loop.timers :
          /\ \A u \in loop.timers : t.due <= u.due
          /\ t.due > loop.now
          /\ t.due <= MaxPlayTime
          /\ loop' = [loop EXCEPT !.now = t.due]
    /\ UNCHANGED <<ds, cv, obs>>

\* a frame is requested: time passes until the browser's next frame
AwaitFrame ==
    /\ loop.frame = <<>>
    /\ loop.raf # <<>>
    /\ loop.now <= loop.frameTime
    /\ \E step \in FrameSteps :
          /\ loop.now + step <= MaxPlayTime
          /\ loop' = [loop EXCEPT !.now = @ + step]
    /\ UNCHANGED <<ds, cv, obs>>

NextApp ==
    \/ OpenProject
    \/ StartPreviewPlayback
    \/ StopPreviewPlayback
    \/ UpdateCurrentDialogueLine
    \/ GetSceneState
    \/ SkipTyping
    \/ ImageLoaded
    \/ ImageError
    \/ FireAppTimer
    \/ FireTimer
    \/ Elapse
    \/ AwaitFrame
    \/ BeginFrame
    \/ FadeFrame
    \/ SceneFrame
    \/ BgFrame

SpecApp == Init /\ [][NextApp]_vars

\* ------------------------------------------------ every sequence, left to run
\* the animation loop requests its next frame after render(): a render() that
\* raised has ended the loop
LoopRan(W) == [W EXCEPT !.obs.loopDead = W.obs.frame.raised]

LiveAnimationFrame ==
    /\ ~obs.loopDead
    /\ loop.frame = <<>>
    /\ loop.now > cv.lastFrameTime
    /\ Becomes(LoopRan(AnimationLoop(World)))

\* a frame is awaited by a frame request or by the running animation loop
\* while it has records
FrameAwaited ==
    \/ loop.raf # <<>>
    \/ ~obs.loopDead /\ (cv.spriteAnimations # <<>> \/ cv.positionAnimations # <<>>)

NextDue == CHOOSE t \in loop.timers : \A u \in loop.timers : t.due <= u.due

\* time passes, while something is awaited and nothing is ready to run, until
\* the browser's next frame or the next timer
LiveElapse ==
    /\ loop.frame = <<>>
    /\ loop.now < MaxLiveTime
    /\ FrameAwaited \/ loop.timers # {}
    /\ loop.raf # <<>> => loop.now <= loop.frameTime
    /\ ~obs.loopDead => loop.now <= cv.lastFrameTime
    /\ \A t \in loop.timers : t.due > loop.now
    /\ \E step \in FrameSteps :
          loop' = [loop EXCEPT !.now =
                      IF ~FrameAwaited THEN NextDue.due
                      ELSE IF loop.timers # {} THEN Min(@ + step, NextDue.due)
                      ELSE @ + step]
    /\ UNCHANGED <<ds, cv, obs>>

\* the owner starts a few sequences, at any time
LiveCall ==
    /\ obs.opCount < MaxLiveOps
    /\ \/ AddSpriteImage
       \/ TriggerPositionAnimation
       \/ StartSceneTransition
       \/ StartBackgroundTransition
       \/ SetDialogueLines
       \/ StartTyping
       \/ AdvanceToNextLine

NextLive ==
    \/ LiveCall
    \/ FireTimer
    \/ BeginFrame
    \/ FadeFrame
    \/ SceneFrame
    \/ BgFrame
    \/ LiveAnimationFrame
    \/ LiveElapse

\* the guards of the event-loop actions: when each of them can run
TimerDue ==
    loop.frame = <<>> /\ \E t \in loop.timers : t.kind \in {"char", "pause"} /\ t.due <= loop.now

FrameReady(kind) == loop.frame # <<>> /\ Head(loop.frame).kind = kind

LoopFrameReady == ~obs.loopDead /\ loop.frame = <<>> /\ loop.now > cv.lastFrameTime

\* the browser runs every due timer and every requested frame, and time goes
\* on: weak fairness of each event-loop action, WF_vars(A) written as
\* []<>~ENABLED \/ []<><<A>>_vars with the action's guard for ENABLED
FairLive ==
    /\ []<>(~TimerDue) \/ []<><<FireTimer>>_vars
    /\ WF_vars(BeginFrame)
    /\ []<>(~FrameReady("fade")) \/ []<><<FadeFrame>>_vars
    /\ []<>(~FrameReady("scene")) \/ []<><<SceneFrame>>_vars
    /\ []<>(~FrameReady("bg")) \/ []<><<BgFrame>>_vars
    /\ []<>(~LoopFrameReady) \/ []<><<LiveAnimationFrame>>_vars
    /\ WF_vars(LiveElapse)

SpecLive == Init /\ [][NextLive]_vars /\ FairLive

\* ------------------------------------------------ line fades at frame pace
\* the lines are replaced and advanced at any time, fades in flight or not;
\* the fades run with the constructor's fadeDuration, frame by frame
NextCursor ==
    \/ SetDialogueLines
    \/ AdvanceToNextLine
    \/ AwaitFrame
    \/ BeginFrame
    \/ FadeFrame

SpecCursor == Init /\ [][NextCursor]_vars

\* ================================================================= claims
EventNames(events) == [i \in DOMAIN events |-> events[i].ev]

IsPrefix(a, b) == Len(a) <= Len(b) /\ a = SubSeq(b, 1, Len(a))

\* the callbacks a scene-transition call has had invoked so far, in order
SceneCallEvents(call) == SelectSeq(obs.sceneEvents, LAMBDA e : e.call = call)

\* C1: a scene transition started alone (style other than 'none') has its
\* onMidpoint invoked exactly once, in the frame that flips the phase from
\* 'out' to 'in' (progress 1), and its onComplete exactly once, in a later
\* frame, the one in which the progress is back at 0 and the controller is
\* inactive again; neither is invoked at any other moment.
C1_MidpointAndCompleteOnce ==
    \A call \in 1..obs.sceneGen :
        LET events == SceneCallEvents(call)
            animated == events = <<>> \/ events[1].prePhase # "sync"
            current == call = obs.sceneGen
        IN  animated =>
              /\ IsPrefix(EventNames(events), <<"onMidpoint", "onComplete">>)
              /\ Len(events) >= 1 =>
                    /\ events[1].prePhase = "out"
                    /\ events[1].phase = "in"
                    /\ events[1].progress = One
              /\ Len(events) >= 2 =>
                    /\ events[2].prePhase = "in"
                    /\ events[2].phase = "none"
                    /\ events[2].progress = Zero
              /\ (current /\ cv.transitionPhase = "out") => Len(events) = 0
              /\ (current /\ cv.transitionPhase = "in") => Len(events) = 1
              /\ (~current \/ cv.transitionPhase = "none") => Len(events) = 2

C1_Witness ==
    /\ obs.sceneGen = 1
    /\ cv.transitionPhase = "none"
    /\ ~cv.isTransitioning
    /\ EventNames(obs.sceneEvents) = <<"onMidpoint", "onComplete">>
    /\ obs.sceneEvents[1].prePhase = "out"
    /\ obs.sceneEvents[2].progress = Zero

\* C2: from a skipTyping() call made in any state of the typewriter (nothing
\* started, waiting for a reveal timer, inside a pause delay, Complete) until
\* the next operation call, displayedText is the full clean text of the line
\* as it was at the call, typingComplete is true, isTyping is false and no
\* typing timer is pending.
C2_SkipFinalizes ==
    obs.skipped # "no" =>
        /\ ds.currentDialogue.displayedText = obs.skipText
        /\ ds.currentDialogue.typingComplete
        /\ ~ds.currentDialogue.isTyping
        /\ loop.timers = {}

\* skipped inside a pause delay, and time has passed beyond the cancelled timer
C2_Witness ==
    /\ obs.skipped = "pause"
    /\ obs.skipText = <<"a", "b">>
    /\ ds.currentDialogue.text = TxtPause
    /\ ds.currentSegmentIndex = 1
    /\ loop.now >= 1

\* C3: startTyping supersedes a typing sequence in progress: at every moment
\* at most one typing timer is pending, and it is the one typingTimeout
\* names; a startTyping call leaves displayedText restarted (empty, or the
\* first character of the text when the text starts with one); no callback
\* of an earlier sequence is invoked once a later startTyping has been made.
C3_StartTypingSupersedes ==
    /\ [](/\ Cardinality(loop.timers) <= 1
          /\ \A t \in loop.timers : t.id = ds.typingTimeout
          /\ ~obs.staleCallback)
    /\ [][obs.typingGen' # obs.typingGen =>
             LET text == ds'.currentDialogue.text
                 shown == ds'.currentDialogue.displayedText
             IN  /\ ds'.onTypingUpdate = obs'.typingGen
                 /\ ds'.onTypingComplete = obs'.typingGen
                 /\ shown = IF text # <<>> /\ MatchEnd(text, 1) = 0
                            THEN <<text[1]>> ELSE <<>>]_vars

\* a second sequence started during the first has run to completion
C3_Witness ==
    /\ obs.superseded
    /\ obs.typingGen = 2
    /\ obs.lastOp = "startTyping"
    /\ ds.currentDialogue.typingComplete
    /\ ds.currentDialogue.displayedText = <<"a", "b">>

HasNoPause(text) == \A i \in 1..Len(text) : MatchEnd(text, i) = 0

\* C7: a typing sequence on a text of N characters without pause directive,
\* left to run (no skip, stop or change of the line), is Complete no earlier
\* than typingSpeed * N ms after startTyping, and once it is Complete
\* displayedText is the text, typingComplete is true and isTyping is false.
C7_TypingTakesSpeedTimesLength ==
    LET cur == ds.currentDialogue
    IN  (obs.seqClean /\ obs.completedAt >= 0 /\ HasNoPause(cur.text)) =>
           /\ obs.completedAt - obs.typingStart >= cur.typingSpeed * Len(cur.text)
           /\ cur.displayedText = cur.text
           /\ cur.typingComplete
           /\ ~cur.isTyping

C7_Witness ==
    /\ obs.seqClean
    /\ ds.currentDialogue.typingComplete
    /\ ds.currentDialogue.text = TxtAb
    /\ ds.currentDialogue.typingSpeed = 2
    /\ obs.completedAt - obs.typingStart = 4

\* C4: only callbacks of the latest startSceneTransition call are ever
\* invoked (a superseded call's onMidpoint and onComplete are not), and
\* once the controller is inactive again the latest animated call has had
\* its onMidpoint and its onComplete invoked exactly once each.
C4_SceneTransitionSupersedes ==
    /\ \A i \in DOMAIN obs.sceneEvents :
          obs.sceneEvents[i].call = obs.sceneEvents[i].gen
    /\ \A call \in 1..obs.sceneGen :
          IsPrefix(EventNames(SceneCallEvents(call)), <<"onMidpoint", "onComplete">>)
    /\ (obs.sceneGen >= 1 /\ obs.lastOp = "startSceneTransition"
        /\ cv.transitionPhase = "none") =>
          EventNames(SceneCallEvents(obs.sceneGen)) = <<"onMidpoint", "onComplete">>

\* C5: only the onComplete of the latest startBackgroundTransition call is
\* ever invoked, and after a call isBgTransitioning stays true until that
\* call's own transition has completed.
C5_BackgroundTransitionSupersedes ==
    /\ \A i \in DOMAIN obs.bgEvents : obs.bgEvents[i].call = obs.bgEvents[i].gen
    /\ (obs.bgGen >= 1 /\ obs.lastOp = "startBackgroundTransition") =>
          \/ cv.isBgTransitioning
          \/ \E i \in DOMAIN obs.bgEvents : obs.bgEvents[i].call = obs.bgGen

\* C6: from a setDialogueLines call until the next operation call the cursor
\* stays 0, fadeOpacity stays 1 and the projection stays the first line of
\* the new list, whatever fade was in flight at the call.
C6_SetDialogueLinesCancelsFade ==
    obs.lastOp = "setDialogueLines" =>
        /\ ds.currentLineIndex = 0
        /\ ds.fadeOpacity = One
        /\ ds.dialogueLines # <<>> =>
              ds.currentDialogue.text = ds.dialogueLines[1].text

\* C9: advanceToNextLine with the cursor on the last line, or with no lines,
\* returns false, raises all-lines-complete exactly when a handler is set,
\* and changes nothing of the dialogue system (cursor, projection,
\* fadeOpacity, isFading) and requests no frame.
C9_AdvancePastLastLine ==
    [][(/\ obs'.opCount # obs.opCount
        /\ obs'.lastOp = "advanceToNextLine"
        /\ \/ ds.dialogueLines = <<>>
           \/ ds.currentLineIndex = Len(ds.dialogueLines) - 1)
       => /\ obs'.ret = FALSE
          /\ ds' = ds
          /\ loop' = loop
          /\ obs'.fadeEvents = obs.fadeEvents
          /\ obs'.allLinesComplete =
                obs.allLinesComplete + (IF ds.onAllLinesComplete # NULL THEN 1 ELSE 0)]_vars

\* refused on the last line of a list, with a handler set
C9_Witness ==
    /\ obs.lastOp = "advanceToNextLine"
    /\ obs.ret = FALSE
    /\ obs.allLinesComplete = 1
    /\ ds.dialogueLines # <<>>
    /\ ds.currentLineIndex = Len(ds.dialogueLines) - 1
    /\ ~ds.isFading

\* the callbacks a line-fade sequence has had invoked so far, in order
FadeCallEvents(chain) == SelectSeq(obs.fadeEvents, LAMBDA e : e.chain = chain)

\* C10: advanceToNextLine with a next line, made while no other fade is in
\* flight, returns true with isFading set and fadeOpacity 1; the opacity then
\* only falls until it is 0; the cursor moves by exactly one, and the
\* projection becomes that line, in the very step in which the opacity is 0,
\* and onFadeOut is invoked there; the opacity then only rises; onFadeIn is
\* invoked once, after onFadeOut, with fadeOpacity 1 and isFading false.
C10_AdvanceFadesOutSwapsFadesIn ==
    /\ [](\A chain \in 1..obs.advGen :
            LET events == FadeCallEvents(chain)
            IN  /\ IsPrefix(EventNames(events), <<"onFadeOut", "onFadeIn">>)
                /\ Len(events) >= 1 =>
                      /\ events[1].opacity = Zero
                      /\ events[1].isFading
                /\ Len(events) >= 2 =>
                      /\ events[2].opacity = One
                      /\ ~events[2].isFading
                      /\ events[2].index = events[1].index
                /\ (chain < obs.advGen \/ ~ds.isFading) => Len(events) = 2)
    /\ [][/\ obs'.advGen # obs.advGen =>
                /\ obs'.ret = TRUE
                /\ ds'.isFading
                /\ ds'.fadeOpacity = One
                /\ ds'.currentLineIndex = ds.currentLineIndex
                /\ ds'.currentDialogue = ds.currentDialogue
          /\ (obs'.opCount = obs.opCount
              /\ ds'.currentLineIndex # ds.currentLineIndex) =>
                /\ ds'.currentLineIndex = ds.currentLineIndex + 1
                /\ ds'.fadeOpacity = Zero
                /\ ds'.currentDialogue.text =
                      LineAt(ds.dialogueLines, ds.currentLineIndex + 1).text
                /\ EventNames(FadeCallEvents(obs.advGen))' = <<"onFadeOut">>
                /\ FadeCallEvents(obs.advGen)'[1].text = ds'.currentDialogue.text
                /\ FadeCallEvents(obs.advGen)'[1].index = ds'.currentLineIndex
                /\ FadeCallEvents(obs.advGen) = <<>>
          /\ (obs'.opCount = obs.opCount /\ ds.isFading) =>
                IF FadeCallEvents(obs.advGen)' = <<>>
                THEN RatLeq(ds'.fadeOpacity, ds.fadeOpacity)
                ELSE FadeCallEvents(obs.advGen) # <<>> =>
                        RatLeq(ds.fadeOpacity, ds'.fadeOpacity)]_vars

\* a whole fade sequence has run, with the opacity seen strictly between 0 and 1
C10_Witness ==
    /\ obs.advGen = 1
    /\ ~ds.isFading
    /\ ds.currentLineIndex = 1
    /\ EventNames(obs.fadeEvents) = <<"onFadeOut", "onFadeIn">>
    /\ ds.fadeOpacity = One
    /\ ds.fadeDuration = 4
    /\ ds.currentDialogue.text = TxtAb

\* every timer so far has fired at the moment it was due
TimersOnTime == ~obs.late /\ \A t \in loop.timers : t.due > loop.now

HiEstimate == TypingDurationEstimate(ds.currentDialogue, ds.dialogueLines, ds.fadeDuration)

\* C8 as stated: for the line "Hi[[200]]!" at typingSpeed 50 the estimate
\* is 300 ms, and 300 ms after startTyping, timers on time, the typewriter
\* is Complete with displayedText "Hi!".
C8_HiCompleteAfter300 ==
    ds.dialogueLines = <<HiLine>> =>
        /\ HiEstimate = 300
        /\ (obs.typingGen = 1 /\ TimersOnTime /\ loop.now - obs.typingStart >= 300) =>
              /\ ds.currentDialogue.typingComplete
              /\ ds.currentDialogue.displayedText = <<"H", "i", "!">>

\* C8 amended: the estimate is 350 ms (three characters and one pause), the
\* typewriter is Complete exactly 350 ms after startTyping when the timers
\* are on time, with displayedText "Hi!"; between 300 and 350 ms the text
\* "Hi!" is shown in full and the typewriter is still Typing.
C8_HiCompleteAfter350 ==
    ds.dialogueLines = <<HiLine>> =>
        LET elapsed == loop.now - obs.typingStart
            cur == ds.currentDialogue
        IN  /\ HiEstimate = 350
            /\ (obs.typingGen = 1 /\ TimersOnTime /\ elapsed >= 350) =>
                  /\ cur.typingComplete
                  /\ ~cur.isTyping
                  /\ cur.displayedText = <<"H", "i", "!">>
            /\ (obs.typingGen = 1 /\ ~obs.late /\ obs.completedAt >= 0) =>
                  obs.completedAt - obs.typingStart = 350
            /\ (obs.typingGen = 1 /\ TimersOnTime /\ elapsed >= 300 /\ elapsed < 350) =>
                  /\ ~cur.typingComplete
                  /\ cur.isTyping
                  /\ cur.displayedText = <<"H", "i", "!">>

C8_Witness ==
    /\ ds.dialogueLines = <<HiLine>>
    /\ obs.typingGen = 1
    /\ TimersOnTime
    /\ loop.now - obs.typingStart = 350
    /\ ds.currentDialogue.typingComplete
    /\ ds.currentDialogue.displayedText = <<"H", "i", "!">>

\* ---------------------------------------------- text functions: the claims
\* a pause directive "[[" digits "]]" starts at position i of text
IsDirectiveAt(text, i) ==
    \E k \in 1..Len(text) :
        /\ i + 3 + k <= Len(text)
        /\ text[i] = "[" /\ text[i + 1] = "["
        /\ \A j \in (i + 2)..(i + 1 + k) : text[j] \in Digits
        /\ text[i + 2 + k] = "]" /\ text[i + 3 + k] = "]"

DirectiveStarts(text) == {i \in 1..Len(text) : IsDirectiveAt(text, i)}

\* the length of the directive that starts at i, brackets included
DirectiveLen(text, i) ==
    4 + CHOOSE k \in 1..Len(text) :
            /\ i + 3 + k <= Len(text)
            /\ \A j \in (i + 2)..(i + 1 + k) : text[j] \in Digits
            /\ text[i + 2 + k] = "]" /\ text[i + 3 + k] = "]"

\* the positions of text that belong to a directive
Covered(text) ==
    UNION {i..(i + DirectiveLen(text, i) - 1) : i \in DirectiveStarts(text)}

\* the characters of text outside every directive, in order
RECURSIVE KeptFrom(_, _, _)
KeptFrom(text, covered, p) ==
    IF p > Len(text) THEN <<>>
    ELSE IF p \in covered THEN KeptFrom(text, covered, p + 1)
    ELSE <<text[p]>> \o KeptFrom(text, covered, p + 1)

Kept(text) == KeptFrom(text, Covered(text), 1)

IsText(segment) == segment.type = "text"
IsPause(segment) == segment.type = "pause"

RECURSIVE ConcatText(_)
ConcatText(segments) ==
    IF segments = <<>> THEN <<>>
    ELSE IF IsText(Head(segments)) THEN Head(segments).content \o ConcatText(Tail(segments))
    ELSE ConcatText(Tail(segments))

\* segments read from position cursor on are exactly the rest of text: a
\* pause segment stands on a directive and carries its integer, a text
\* segment is the non-empty slice up to the next directive or the end
RECURSIVE Walk(_, _, _)
Walk(text, segments, cursor) ==
    IF segments = <<>> THEN cursor = Len(text) + 1
    ELSE LET seg == Head(segments)
         IN  IF IsPause(seg)
             THEN /\ cursor \in DirectiveStarts(text)
                  /\ seg.content = ParseInt(SubSeq(text, cursor + 2,
                                                   cursor + DirectiveLen(text, cursor) - 3))
                  /\ Walk(text, Tail(segments), cursor + DirectiveLen(text, cursor))
             ELSE /\ Len(seg.content) >= 1
                  /\ cursor + Len(seg.content) - 1 <= Len(text)
                  /\ seg.content = SubSeq(text, cursor, cursor + Len(seg.content) - 1)
                  /\ \A q \in cursor..(cursor + Len(seg.content) - 1) :
                        q \notin DirectiveStarts(text)
                  /\ \/ Len(segments) = 1
                     \/ IsPause(segments[2])
                  /\ Walk(text, Tail(segments), cursor + Len(seg.content))

TxtHelloWorld == <<"H", "e", "l", "l", "o", " ", "w", "o", "r", "l", "d">>

\* C11: parseTextWithPauses returns, in source order, one pause segment per
\* directive carrying its integer and the text between directives as text
\* segments; the text contents concatenated are getCleanText(text); and
\* "Hello [[500]]world" gives text "Hello ", pause 500, text "world" with
\* clean text "Hello world".
C11_SegmentsFollowDirectives ==
    /\ "parse" \in obs.called =>
          /\ Walk(obs.text, obs.segments, 1)
          /\ Len(SelectSeq(obs.segments, IsPause)) = Cardinality(DirectiveStarts(obs.text))
          /\ obs.text = TxtHello =>
                obs.segments = << [type |-> "text", content |-> SubSeq(TxtHello, 1, 6)],
                                  [type |-> "pause", content |-> 500],
                                  [type |-> "text", content |-> SubSeq(TxtHello, 14, 18)] >>
    /\ {"parse", "clean"} \subseteq obs.called =>
          ConcatText(obs.segments) = obs.cleanText
    /\ ("clean" \in obs.called /\ obs.text = TxtHello) => obs.cleanText = TxtHelloWorld

C11_Witness ==
    /\ obs.text = TxtHello
    /\ {"parse", "clean"} \subseteq obs.called
    /\ Len(obs.segments) = 3
    /\ obs.cleanText = TxtHelloWorld

\* C12 as stated: for every text without a directive, parseTextWithPauses
\* yields exactly one segment, a text segment whose content is the input.
C12_NoDirectiveOneSegment ==
    ("parse" \in obs.called /\ DirectiveStarts(obs.text) = {}) =>
        obs.segments = << [type |-> "text", content |-> obs.text] >>

\* C12 amended: for every non-empty text without a directive the result is
\* one text segment whose content is the input; for the empty text it is
\* the empty list.
C12_NoDirectiveOneSegmentUnlessEmpty ==
    ("parse" \in obs.called /\ DirectiveStarts(obs.text) = {}) =>
        IF obs.text = <<>>
        THEN obs.segments = <<>>
        ELSE obs.segments = << [type |-> "text", content |-> obs.text] >>

C12_Witness ==
    /\ "parse" \in obs.called
    /\ obs.text = <<"[", "[", "1", "]">>
    /\ obs.segments = << [type |-> "text", content |-> obs.text] >>

\* the pairs of directives of text that touch
AdjacentDirectives(text) ==
    {i \in DirectiveStarts(text) : i + DirectiveLen(text, i) \in DirectiveStarts(text)}

\* C13 as stated: in the segment list no two adjacent segments have the same
\* type (consecutive directives are separated by a zero-length text segment).
C13_SegmentsAlternate ==
    "parse" \in obs.called =>
        \A i \in 1..(Len(obs.segments) - 1) :
            obs.segments[i].type # obs.segments[i + 1].type

\* C13 amended: no two adjacent segments are both text segments and no text
\* segment is empty; two pause segments are adjacent exactly where two
\* directives touch, with no segment between them.
C13_NoAdjacentTextSegments ==
    "parse" \in obs.called =>
        /\ \A i \in 1..(Len(obs.segments) - 1) :
              ~(IsText(obs.segments[i]) /\ IsText(obs.segments[i + 1]))
        /\ \A i \in 1..Len(obs.segments) :
              IsText(obs.segments[i]) => obs.segments[i].content # <<>>
        /\ Cardinality({i \in 1..(Len(obs.segments) - 1) :
                           IsPause(obs.segments[i]) /\ IsPause(obs.segments[i + 1])})
              = Cardinality(AdjacentDirectives(obs.text))

C13_Witness ==
    /\ "parse" \in obs.called
    /\ obs.text = <<"[", "[", "2", "]", "]", "[", "[", "2", "]", "]">>
    /\ obs.segments = << [type |-> "pause", content |-> 2],
                         [type |-> "pause", content |-> 2] >>

\* "[[" stands at position i of text and no directive starts there
IsMalformedAt(text, i) ==
    /\ i + 1 <= Len(text)
    /\ text[i] = "[" /\ text[i + 1] = "["
    /\ ~IsDirectiveAt(text, i)

\* parseTextWithPauses and getCleanText returned, with as many pause
\* segments as there are directives and all other characters kept
OnlyDirectivesRemoved ==
    /\ "parse" \in obs.called =>
          /\ Len(SelectSeq(obs.segments, IsPause)) = Cardinality(DirectiveStarts(obs.text))
          /\ ConcatText(obs.segments) = Kept(obs.text)
    /\ "clean" \in obs.called => obs.cleanText = Kept(obs.text)

\* C14 as stated: parseTextWithPauses returns for every input, and a "[["
\* not followed by digits and "]]" produces no pause segment, both of its
\* characters appearing verbatim in a text segment and in the clean text.
C14_MalformedDirectiveIsLiteral ==
    /\ OnlyDirectivesRemoved
    /\ {"parse", "clean"} \subseteq obs.called =>
          \A covered \in {Covered(obs.text)} :
          \A i \in 1..Len(obs.text) :
              IsMalformedAt(obs.text, i) =>
                  /\ i \notin covered
                  /\ i + 1 \notin covered

\* C14 amended: as stated, except that the second bracket of such a "[[" is
\* not literal text when it is itself the first bracket of a well-formed
\* directive ("[[[5]]" is the text "[" and a pause of 5).
C14_MalformedDirectiveIsLiteralUnlessOpening ==
    /\ OnlyDirectivesRemoved
    /\ {"parse", "clean"} \subseteq obs.called =>
          \A covered \in {Covered(obs.text)} :
          \A i \in 1..Len(obs.text) :
              IsMalformedAt(obs.text, i) =>
                  /\ i \notin covered
                  /\ i + 1 \in covered => IsDirectiveAt(obs.text, i + 1)

C14_Witness ==
    /\ {"parse", "clean"} \subseteq obs.called
    /\ obs.text = <<"[", "[", "a", "]", "]", "[", "[">>
    /\ obs.segments = << [type |-> "text", content |-> obs.text] >>
    /\ obs.cleanText = obs.text

\* C15: the output of getCleanText, and displayedText at typing completion,
\* contains no pause directive; getCleanText(getCleanText(t)) = getCleanText(t).
C15_CleanTextHasNoDirective ==
    /\ "clean" \in obs.called => DirectiveStarts(obs.cleanText) = {}
    /\ "again" \in obs.called => obs.cleanAgain = obs.cleanText
    /\ (obs.lastOp = "skipTyping" /\ ds.currentDialogue.typingComplete) =>
          DirectiveStarts(ds.currentDialogue.displayedText) = {}

\* ------------------------------------------- background style none: claim
\* C20: with background style 'none', startBackgroundTransition(newBackground,
\* onComplete) sets background = newBackground and invokes onComplete before
\* it returns; it leaves isBgTransitioning, bgTransitionProgress and
\* previousBackground as they were and schedules no frame callback.
C20_StyleNoneSwapsSynchronously ==
    [][(obs'.bgGen = obs.bgGen + 1 /\ cv.bgTransitionStyle = "none") =>
          /\ cv' = [cv EXCEPT !.background = obs'.bgArg]
          /\ obs'.bgEvents = Append(obs.bgEvents,
                                    [call |-> obs'.bgGen, gen |-> obs'.bgGen,
                                     at |-> loop.now, background |-> obs'.bgArg])
          /\ loop' = loop
          /\ ~cv.isBgTransitioning => ~cv'.isBgTransitioning]_vars

C20_Witness ==
    /\ obs.lastOp = "startBackgroundTransition"
    /\ cv.bgTransitionStyle = "none"
    /\ cv.background = 2
    /\ obs.bgArg = 2
    /\ Len(obs.bgEvents) = 1
    /\ ~cv.isBgTransitioning
    /\ loop.raf = <<>>

\* ------------------------------------------------ sprite animations: claims
\* the step is a frame of the animation loop
IsAnimationFrame == cv'.lastFrameTime # cv.lastFrameTime

SpriteOf(c, spriteId) == c.sprites[Find(c.sprites, spriteId)]

\* the curves that never decrease on [0, 1]
MonotonicEasings == EasingInputs \ {"easeOutBack"}

NotFarther(p, q, target) == RatLeq(RatAbs(RatSub(p, target)), RatAbs(RatSub(q, target)))

\* C16: a position tween of a sprite in the scene, of duration D and any
\* easing curve, puts the sprite at (x0,y0) at a frame with elapsed 0, at
\* exactly (x1,y1) at the first frame with elapsed >= D, where the record is
\* deleted, and leaves it there at later frames; with a monotonic curve no
\* frame takes the sprite farther from the target than the frame before.
C16_TweenReachesTarget ==
    [][IsAnimationFrame =>
          \A i \in DOMAIN cv.sprites :
              LET id == cv.sprites[i].id
                  before == cv.sprites[i]
                  after == cv'.sprites[i]
              IN  IF id \in DOMAIN cv.positionAnimations
                  THEN LET a == cv.positionAnimations[id]
                           elapsed == loop.now - a.startTime
                           D == cv.positionTransitionDuration
                       IN  /\ elapsed = 0 => (after.x = a.fromX /\ after.y = a.fromY)
                           /\ elapsed >= D =>
                                 /\ after.x = a.toX /\ after.y = a.toY
                                 /\ id \notin DOMAIN cv'.positionAnimations
                           /\ elapsed < D => id \in DOMAIN cv'.positionAnimations
                           /\ (cv.positionTransitionEasing \in MonotonicEasings
                               /\ obs.tweenCfg[id].frames >= 1) =>
                                 /\ NotFarther(after.x, before.x, a.toX)
                                 /\ NotFarther(after.y, before.y, a.toY)
                  ELSE /\ after = before
                       /\ id \notin DOMAIN cv'.positionAnimations]_vars

\* a tween of three milliseconds has been through two frames and has ended
C16_Witness ==
    /\ cv.sprites # <<>>
    /\ cv.positionTransitionDuration = 3
    /\ cv.positionTransitionEasing = "easeOut"
    /\ 1 \in DOMAIN obs.tweenCfg
    /\ obs.tweenCfg[1].frames = 2
    /\ 1 \notin DOMAIN cv.positionAnimations
    /\ SpriteOf(cv, 1).x = RatOf(106)
    /\ SpriteOf(cv, 1).y = RatOf(88)

\* C17: a record in flight keeps the trajectory and the completion time of
\* the configuration in force when it was triggered, whatever the squish
\* duration, the tween duration and the easing curve are set to meanwhile.
C17_InFlightRecordsKeepConfiguration ==
    [][IsAnimationFrame =>
          /\ \A id \in DOMAIN cv.positionAnimations :
                Find(cv.sprites, id) # 0 =>
                    LET a == cv.positionAnimations[id]
                        cfg == obs.tweenCfg[id]
                        raw == Progress(loop.now - a.startTime, cfg.duration)
                        p == applyEasing(raw, cfg.easing)
                        after == SpriteOf(cv', id)
                    IN  IF raw = One
                        THEN /\ after.x = a.toX /\ after.y = a.toY
                             /\ id \notin DOMAIN cv'.positionAnimations
                        ELSE /\ after.x = Lerp(a.fromX, a.toX, p)
                             /\ after.y = Lerp(a.fromY, a.toY, p)
                             /\ id \in DOMAIN cv'.positionAnimations
          /\ \A id \in DOMAIN cv.spriteAnimations :
                LET a == cv.spriteAnimations[id]
                    raw == Progress(loop.now - a.startTime, obs.squishCfg[id])
                IN  IF raw = One
                    THEN id \notin DOMAIN cv'.spriteAnimations
                    ELSE /\ id \in DOMAIN cv'.spriteAnimations
                         /\ cv'.spriteAnimations[id] = SquishStep(a, raw)]_vars

BreathingOnly(p, c) ==
    /\ p.animScaleX = UnitFactor /\ p.animScaleY = UnitFactor
    /\ p.breathingX = Factor(2, RatMul(Two, c.breathingPhase))
    /\ p.breathingY = Factor(4, RatMul(Two, c.breathingPhase))

SquishOnly(p, anim) ==
    /\ p.animScaleX = anim.scaleX /\ p.animScaleY = anim.scaleY
    /\ p.breathingX = UnitFactor /\ p.breathingY = UnitFactor

\* C18: at every painted frame each sprite is painted with the squish-stretch
\* factors and breathing (1,1) if it has a squish record, with the breathing
\* factors and extra scale (1,1) otherwise; a record whose elapsed time has
\* reached the squish duration at a frame update is removed in that update,
\* and no frame brings a record back.
C18_SquishOrBreathing ==
    [][IsAnimationFrame =>
          /\ DOMAIN obs'.painted = DOMAIN cv'.sprites
          /\ \A i \in DOMAIN cv'.sprites :
                LET id == cv'.sprites[i].id
                    p == obs'.painted[i]
                IN  /\ p.id = id
                    /\ IF id \in DOMAIN cv'.spriteAnimations
                       THEN SquishOnly(p, cv'.spriteAnimations[id])
                       ELSE BreathingOnly(p, cv')
          /\ \A id \in DOMAIN cv.spriteAnimations :
                loop.now - cv.spriteAnimations[id].startTime >= cv.animationDuration =>
                    id \notin DOMAIN cv'.spriteAnimations
          /\ DOMAIN cv'.spriteAnimations \subseteq DOMAIN cv.spriteAnimations]_vars

\* a squish of two milliseconds has ended and the sprite is painted breathing
C18_Witness ==
    /\ Len(cv.sprites) = 1
    /\ cv.animationDuration = 2
    /\ DOMAIN cv.spriteAnimations = {}
    /\ cv.lastFrameTime >= 2
    /\ Len(obs.painted) = 1
    /\ obs.painted[1].animScaleX = UnitFactor
    /\ obs.painted[1].breathingY # UnitFactor

\* ------------------------------------------------------ sprite scale: claim
\* C19: after any sequence of pointer resize interactions and property edits
\* (updateSprite with a scale value) every sprite's scale lies in [10, 300].
C19_ScaleWithinBounds ==
    \A i \in DOMAIN cv.sprites : cv.sprites[i].scale >= 10 /\ cv.sprites[i].scale <= 300

\* ------------------------------------------- background transition: claim
\* the frame closure that is about to run is a background closure
BgClosureRuns == loop.frame # <<>> /\ Head(loop.frame).kind = "bg"

\* C21: with a style other than 'none', startBackgroundTransition sets
\* background = newBackground, previousBackground = the prior background and
\* isBgTransitioning = true before it returns; no frame of the transition
\* changes background; the frame at which the elapsed time has reached the
\* duration sets previousBackground to null and isBgTransitioning to false
\* and invokes the call's onComplete, which is never invoked twice.
C21_BackgroundTransitionRuns ==
    /\ [][(obs'.bgGen = obs.bgGen + 1 /\ cv.bgTransitionStyle # "none") =>
             /\ cv'.background = obs'.bgArg
             /\ cv'.previousBackground = cv.background
             /\ cv'.isBgTransitioning
             /\ obs'.bgEvents = obs.bgEvents]_vars
    /\ [][obs'.bgGen = obs.bgGen => cv'.background = cv.background]_vars
    /\ [][BgClosureRuns =>
             IF loop.now - Head(loop.frame).startTime >= cv.bgTransitionDuration
             THEN /\ cv'.previousBackground = NULL
                  /\ ~cv'.isBgTransitioning
                  /\ Len(obs'.bgEvents) = Len(obs.bgEvents) + 1
                  /\ obs'.bgEvents[Len(obs'.bgEvents)].call = Head(loop.frame).onComplete
                  /\ \A i \in DOMAIN obs.bgEvents :
                        obs.bgEvents[i].call # Head(loop.frame).onComplete
             ELSE /\ obs'.bgEvents = obs.bgEvents
                  /\ cv'.isBgTransitioning = cv.isBgTransitioning
                  /\ cv'.previousBackground = cv.previousBackground]_vars

C21_Witness ==
    /\ cv.bgTransitionStyle = "fade"
    /\ obs.bgGen = 1
    /\ obs.lastOp = "startBackgroundTransition"
    /\ cv.background = obs.bgArg
    /\ cv.previousBackground = NULL
    /\ ~cv.isBgTransitioning
    /\ Len(obs.bgEvents) = 1
    /\ obs.bgEvents[1].call = 1
    /\ obs.bgEvents[1].background = obs.bgArg
    /\ loop.raf = <<>>

\* ------------------------------------------------------- pointer: claims
\* the step is the canvas receiving a pointer event of the given kind
IsPointerStep(op) == obs'.pointer # obs.pointer /\ obs'.pointer.op = op

\* half of the painted width and height of sprite s
HalfWidth(s) == Rat(s.w * s.scale, 200)
HalfHeight(s) == Rat(s.h * s.scale, 200)

\* p lies within the bounding box of sprite s, its edges included
InBox(s, p) ==
    /\ RatLeq(RatAbs(RatSub(p.x, s.x)), HalfWidth(s))
    /\ RatLeq(RatAbs(RatSub(p.y, s.y)), HalfHeight(s))

\* p lies within the 20 x 20 handle centred on one of the corners of s
OnCornerHandle(s, p) ==
    \E sx, sy \in {-1, 1} :
        /\ RatLeq(RatAbs(RatSub(RatSub(p.x, s.x), RatMul(RatOf(sx), HalfWidth(s)))), RatOf(10))
        /\ RatLeq(RatAbs(RatSub(RatSub(p.y, s.y), RatMul(RatOf(sy), HalfHeight(s)))), RatOf(10))

\* the sprite of the scene with the given id
SpriteWithId(sprites, id) == sprites[CHOOSE i \in DOMAIN sprites : sprites[i].id = id]

\* C22: a mouse-down at p on a corner handle of the selected sprite starts
\* resize mode and leaves the selection; otherwise, when a bounding box
\* contains p, the latest such sprite of the list becomes selected and drag
\* mode starts; otherwise the selection is cleared and no mode starts.
C22_MouseDownHitTest ==
    [][IsPointerStep("down") =>
          LET p == obs'.pointer.pos
              sel == cv.selectedSprite
              holding == {i \in DOMAIN cv.sprites : InBox(cv.sprites[i], p)}
          IN  IF sel # NULL /\ OnCornerHandle(SpriteWithId(cv.sprites, sel), p)
              THEN /\ cv'.isResizing
                   /\ cv'.resizeHandle \in {"tl", "tr", "bl", "br"}
                   /\ cv'.selectedSprite = sel
              ELSE IF holding # {}
              THEN /\ \A j \in holding :
                         j <= CHOOSE i \in holding : cv.sprites[i].id = cv'.selectedSprite
                   /\ cv'.isDragging
              ELSE /\ cv'.selectedSprite = NULL
                   /\ cv'.isDragging => cv.isDragging
                   /\ cv'.isResizing => cv.isResizing]_vars

C22_Witness ==
    /\ obs.pointer.op = "down"
    /\ obs.pointer.pos = [x |-> RatOf(110), y |-> RatOf(110)]
    /\ Len(cv.sprites) = 2
    /\ cv.sprites[1].scale = 20
    /\ cv.sprites[2].scale = 100
    /\ cv.selectedSprite = cv.sprites[1].id
    /\ cv.isResizing
    /\ cv.resizeHandle = "br"

\* neither drag mode nor resize mode is on
Released == ~cv.isDragging /\ ~cv.isResizing

\* the place and scale of every sprite of the scene
Placement(sprites) ==
    [i \in DOMAIN sprites |-> <<sprites[i].id, sprites[i].x, sprites[i].y, sprites[i].scale>>]

\* C23: a mouse-up (or mouse-leave) leaves isDragging and isResizing false
\* and resizeHandle null; they stay so until the next mouse-down, and until
\* then no mouse-move changes the x, y or scale of any sprite.
C23_MouseUpEndsModes ==
    /\ [][IsPointerStep("up") =>
             /\ ~cv'.isDragging
             /\ ~cv'.isResizing
             /\ cv'.resizeHandle = NoHandle]_vars
    /\ [][(Released /\ ~IsPointerStep("down")) =>
             /\ ~cv'.isDragging
             /\ ~cv'.isResizing]_vars
    /\ [][(Released /\ IsPointerStep("move")) =>
             Placement(cv'.sprites) = Placement(cv.sprites)]_vars

C23_Witness ==
    /\ obs.pointer.op = "move"
    /\ obs.pointer.n = 4
    /\ obs.pointer.pos = [x |-> RatOf(150), y |-> RatOf(150)]
    /\ cv.selectedSprite # NULL
    /\ Released
    /\ cv.resizeHandle = NoHandle
    /\ Len(cv.sprites) = 1
    /\ cv.sprites[1].x = RatOf(100)
    /\ cv.sprites[1].scale = 20

\* --------------------------------------------------------- render: claim
\* the step ran render(): an operation other than startSceneTransition was
\* called, or a frame closure repainted
IsRenderStep ==
    \/ obs'.frame # obs.frame
    \/ obs'.opCount # obs.opCount /\ obs'.sceneGen = obs.sceneGen
    \/ loop.frame # <<>>

\* C24: render() does not raise when the image of a sprite or the background
\* is missing or not decoded; every sprite that has an image is painted, and
\* so are the selection outline, the dialogue box and the transition overlay
\* whenever the scene has them.
C24_RenderSkipsMissingImages ==
    [][IsRenderStep =>
          /\ ~obs'.frame.raised
          /\ obs'.frame.sprites =
                {cv'.sprites[i].id : i \in {j \in DOMAIN cv'.sprites :
                                               cv'.sprites[j].image # "missing"}}
          /\ obs'.frame.selection = (cv'.selectedSprite # NULL)
          /\ obs'.frame.dialogue = (cv'.dialogue # NoDialogue /\ cv'.dialogue.visible)
          /\ obs'.frame.overlay = cv'.isTransitioning]_vars

\* ------------------------------------------- animations of absent sprites
\* C25: after triggerSpriteAnimation or triggerPositionAnimation for an id
\* that is not in the scene, no frame changes the x, y or scale of a sprite
\* of the scene, and the record is removed by the first frame at which its
\* duration has elapsed.
C25_AbsentSpriteAnimationIsInert ==
    [][IsAnimationFrame =>
          /\ obs.inert # {} => Placement(cv'.sprites) = Placement(cv.sprites)
          /\ \A id \in DOMAIN cv.positionAnimations :
                (/\ <<"position", id>> \in obs.inert
                 /\ loop.now - cv.positionAnimations[id].startTime
                        >= cv.positionTransitionDuration)
                    => id \notin DOMAIN cv'.positionAnimations
          /\ \A id \in DOMAIN cv.spriteAnimations :
                (/\ <<"squish", id>> \in obs.inert
                 /\ loop.now - cv.spriteAnimations[id].startTime >= cv.animationDuration)
                    => id \notin DOMAIN cv'.spriteAnimations]_vars

\* ------------------------------------------------------------------- C26
\* a dialogue line in authored form: none of the runtime-only fields
Authored(line) == (DOMAIN line) \cap RuntimeFields = {}

\* a step of the typewriter, of a skip or of a line advance: a timer or a
\* frame closure ran, or skipTyping was called, and no scene was loaded
IsTypingStep ==
    /\ obs'.app.loads = obs.app.loads
    /\ obs'.app.loading = obs.app.loading
    /\ \/ obs'.opCount = obs.opCount /\ loop'.now = loop.now
       \/ obs'.opCount # obs.opCount /\ obs'.lastOp = "skipTyping"

\* C26: whenever a dialogue line is held or written back in authored form
\* (the elements of the DialogueSystem's dialogueLines, scene.dialogues
\* after updateCurrentDialogueLine, the dialogue getSceneState returns for
\* saving), it carries none of displayedText, isTyping, typingComplete; and
\* typing, skipping and line advance change only the current-dialogue
\* projection, never the line lists.
C26_AuthoredLinesCarryNoRuntimeFields ==
    [][/\ \A i \in DOMAIN ds'.dialogueLines : Authored(ds'.dialogueLines[i])
       /\ obs'.lastOp = "updateCurrentDialogueLine"
          => \A s \in DOMAIN obs'.app.scenes :
                \A i \in DOMAIN obs'.app.scenes[s].dialogues :
                   Authored(obs'.app.scenes[s].dialogues[i])
       /\ obs'.app.sceneState.dialogue # NoDialogue
          => Authored(obs'.app.sceneState.dialogue)
       /\ IsTypingStep
          => /\ ds'.dialogueLines = ds.dialogueLines
             /\ obs'.app.scenes = obs.app.scenes]_vars

\* ------------------------------------------------------------------- C27
\* the sum over all the lines of characters x typingSpeed plus pauses
RECURSIVE AllLinesTyping(_)
AllLinesTyping(dialogues) ==
    IF dialogues = <<>> THEN 0
    ELSE SegmentsDuration(parseTextWithPauses(Head(dialogues).text),
                          Head(dialogues).typingSpeed)
         + AllLinesTyping(Tail(dialogues))

\* the estimate as the claim states it: every line's typing, and one fade
\* per transition from a line to the next
StatedTypingDuration(dialogues, fade) ==
    AllLinesTyping(dialogues) + fade * (Len(dialogues) - 1)

\* C27: during playback the time a scene stays on screen is
\* max(scene.duration, estimatedTypingDuration + fixed post-delay), where the
\* estimate is the sum over all dialogue lines of the scene of (characters x
\* the line's typingSpeed + the line's pauses) plus one fade duration per
\* line transition, computed with the typewriter's segmentation.
C27_SceneStaysForTypingEstimate ==
    [][obs'.app.shown # obs.app.shown
       => LET scene == obs'.app.scenes[obs'.app.shown.scene]
              estimate == StatedTypingDuration(scene.dialogues, ds'.fadeDuration)
          IN  obs'.app.shown.totalDuration =
                  IF scene.duration >= estimate + PostDelay
                  THEN scene.duration ELSE estimate + PostDelay]_vars

\* ------------------------------------------------------------------- C28
\* C28: in every reachable state of the scene transition controller,
\* isTransitioning is true exactly when transitionPhase is 'out' or 'in',
\* sceneTransitionProgress lies in [0, 1], and while the controller is
\* inactive (phase 'none') sceneTransitionProgress is 0 and
\* previousSceneSnapshot is null.
C28_SceneTransitionControllerInvariant ==
    /\ cv.isTransitioning <=> cv.transitionPhase \in {"out", "in"}
    /\ RatLeq(Zero, cv.sceneTransitionProgress)
    /\ RatLeq(cv.sceneTransitionProgress, One)
    /\ cv.transitionPhase = "none"
       => /\ cv.sceneTransitionProgress = Zero
          /\ cv.previousSceneSnapshot = NULL

\* ------------------------------------------------------------------- C29
\* the loads whose wait for the background image ends with this step
LoadsResumed == obs.app.loading \ obs'.app.loading

\* no scene is loaded and nothing is called: a timer or a frame closure runs
IsLoopStep ==
    /\ obs'.app.loads = obs.app.loads
    /\ obs'.app.loading = obs.app.loading
    /\ obs'.opCount = obs.opCount

\* C29: when loadSceneToCanvas loads, with animations enabled, a scene whose
\* background differs from the one shown before, the canvas's background is
\* the new scene's background from the moment the background transition
\* starts, during the transition and after it completes, and the retained
\* previous bitmap is the old scene's background.
C29_NewBackgroundIsAuthoritative ==
    [][/\ \A p \in LoadsResumed :
             p.triggerAnimations /\ p.bgChanged /\ cv'.isBgTransitioning
             => /\ cv'.background = obs'.app.scenes[p.scene].background
                /\ cv'.previousBackground = p.previousBackground
       /\ IsLoopStep => cv'.background = cv.background]_vars

\* ------------------------------------------------------------------- C30
\* C30: during preview playback, when loadSceneToCanvas loads a new scene,
\* every delayed advance-to-next-line callback scheduled by the previous
\* scene's typing completion is cancelled: no callback scheduled before the
\* load ever calls advanceToNextLine (and through it startTyping) on the new
\* scene's dialogue list.
C30_LoadCancelsAdvanceCallbacks ==
    \A a \in obs.app.advanced : a.by = a.on

\* C31: when skipTyping() or stopTyping() is called from inside the onUpdate
\* callback of a character reveal, then once that reveal step has returned no
\* reveal timer is pending, displayedText receives no further characters (a
\* timer firing changes nothing of it), and onComplete fires at most once
\* for the sequence.
C31_ReentrantSkipOrStopEndsSequence ==
    /\ [](obs.reentered # "no" => loop.timers = {} /\ obs.completes <= 1)
    /\ [][(obs.reentered # "no" /\ obs'.opCount = obs.opCount) =>
             ds'.currentDialogue.displayedText = ds.currentDialogue.displayedText]_vars

\* C32: frames and timers keep firing and time goes on (FairLive), durations
\* are positive: every started sequence completes. Each squish record and
\* each position-tween record is eventually removed, a scene transition
\* eventually returns to inactive, a background transition eventually clears
\* isBgTransitioning, a dialogue fade eventually clears isFading, and a
\* typing sequence eventually reaches typingComplete.
C32_EverySequenceCompletes ==
    /\ \A id \in SpriteIds :
          /\ (id \in DOMAIN cv.spriteAnimations) ~> (id \notin DOMAIN cv.spriteAnimations)
          /\ (id \in DOMAIN cv.positionAnimations) ~> (id \notin DOMAIN cv.positionAnimations)
    /\ cv.isTransitioning ~> ~cv.isTransitioning
    /\ cv.isBgTransitioning ~> ~cv.isBgTransitioning
    /\ ds.isFading ~> ~ds.isFading
    /\ ds.currentDialogue.isTyping ~> ds.currentDialogue.typingComplete

\* the typing timer that fires in this step, if one does
FiredTimers == {t \in loop.timers : t.kind \in {"char", "pause"} /\ t \notin loop'.timers}

\* the step is a reveal tick: a reveal timer fires with a character of the
\* current text segment left, or a pause ends in front of a text segment
IsRevealTick ==
    LET segs == ds.parsedSegments
        i == ds.currentSegmentIndex + 1
    IN  \E t \in FiredTimers :
           \/ /\ t.kind = "char"
              /\ i \in DOMAIN segs
              /\ segs[i].type = "text"
              /\ ds.typingIndex < Len(segs[i].content)
           \/ /\ t.kind = "pause"
              /\ i + 1 \in DOMAIN segs
              /\ segs[i + 1].type = "text"

\* C33: while a typing sequence runs and no other call changes the line
\* (obs.seqClean), displayedText is a prefix of getCleanText(text); a reveal
\* tick appends exactly one character to it, and every other step of the
\* sequence (time passing, a pause being waited for or entered, the last
\* tick that finds the text exhausted) leaves it as it is.
C33_DisplayedTextGrowsByOne ==
    /\ [](obs.seqClean =>
             IsPrefix(ds.currentDialogue.displayedText,
                      getCleanText(ds.currentDialogue.text)))
    /\ [][(obs.seqClean /\ obs'.seqClean /\ obs'.typingGen = obs.typingGen) =>
             /\ IsPrefix(ds.currentDialogue.displayedText, ds'.currentDialogue.displayedText)
             /\ Len(ds'.currentDialogue.displayedText) =
                    Len(ds.currentDialogue.displayedText) + (IF IsRevealTick THEN 1 ELSE 0)]_vars

\* the pause of "a[[2]]b" is over and "b" has been revealed by the pause's tick
C33_Witness ==
    /\ obs.seqClean
    /\ ds.currentDialogue.text = TxtPause
    /\ ds.currentDialogue.isTyping
    /\ ds.currentDialogue.displayedText = <<"a", "b">>
    /\ \E t \in loop.timers : t.kind = "char"

\* C34: after any sequence of setDialogueLines calls, advanceToNextLine calls
\* (also while an earlier fade is in flight) and frame callbacks, with a
\* non-empty line list the cursor satisfies 0 <= currentLineIndex <=
\* length - 1 (so the line the projection is rebuilt from at a swap exists),
\* and a step that moves the cursor on the same list moves it by exactly one.
C34_LineCursorStaysInRange ==
    /\ [](ds.dialogueLines # <<>> =>
             /\ 0 <= ds.currentLineIndex
             /\ ds.currentLineIndex <= Len(ds.dialogueLines) - 1)
    /\ [][(ds'.currentLineIndex # ds.currentLineIndex /\ ds'.dialogueLines = ds.dialogueLines) =>
             ds'.currentLineIndex = ds.currentLineIndex + 1]_vars

\* the step switches the projection to a different line: the fade-out
\* continuation of advanceToNextLine moves the cursor, or setDialogueLines
\* installs a list whose first line has another text
IsLineSwitch ==
    \/ ds'.currentLineIndex = ds.currentLineIndex + 1 /\ ds'.dialogueLines = ds.dialogueLines
    \/ /\ obs'.opCount # obs.opCount
       /\ obs'.lastOp = "setDialogueLines"
       /\ ds'.dialogueLines # <<>>
       /\ ds'.currentDialogue.text # ds.currentDialogue.text

\* C35: immediately after the projection is switched to a different line its
\* runtime fields are reset for the new line: typingComplete is false and
\* displayedText is not the text revealed for the previous line.
C35_LineSwitchResetsRuntimeFields ==
    [][IsLineSwitch =>
          /\ ~ds'.currentDialogue.typingComplete
          /\ ds.currentDialogue.displayedText # <<>> =>
                 ds'.currentDialogue.displayedText # ds.currentDialogue.displayedText]_vars

\* C36: after any sequence of mouse-down, mouse-move, mouse-up and
\* mouse-leave events (two mouse-downs in a row included) isDragging and
\* isResizing are never both true, and resizeHandle is non-null exactly when
\* isResizing is true.
C36_OnePointerModeAtATime ==
    /\ ~(cv.isDragging /\ cv.isResizing)
    /\ cv.resizeHandle # NoHandle <=> cv.isResizing

\* C37: after any sequence of addSprite, removeSprite, selections by pointer
\* events and loadSceneState, selectedSprite is null or a sprite of the
\* current sprites list.
C37_SelectionIsInTheScene ==
    cv.selectedSprite = NULL \/ Find(cv.sprites, cv.selectedSprite) # 0

\* C38: once stopPreviewPlayback has returned (previewPlaying is false), no
\* timer and no continuation of a scene load, which are the steps that are
\* not calls, changes the timeline's current scene index or loads a scene;
\* this covers a stop made while the load of playNextPreviewScene is still
\* waiting for its background image.
C38_StopEndsPlayback ==
    [][(~obs.app.previewPlaying /\ obs'.opCount = obs.opCount) =>
          /\ obs'.app.currentSceneIndex = obs.app.currentSceneIndex
          /\ obs'.app.loads = obs.app.loads]_vars

IsRecordStep == obs'.history.calls # obs.history.calls /\ obs'.history.lastOp = "record"

\* C39: after any sequence of record, undo and redo on a HistoryManager with
\* maxHistory >= 1, undoStack.length <= maxHistory; a record made while the
\* restoring flag is set changes neither stack; every record that takes
\* effect leaves the redo stack empty.
C39_HistoryStacksBounded ==
    /\ [](Len(obs.history.undoStack) <= obs.history.maxHistory)
    /\ [][IsRecordStep =>
             IF obs.history.isRestoring
             THEN /\ obs'.history.undoStack = obs.history.undoStack
                  /\ obs'.history.redoStack = obs.history.redoStack
             ELSE obs'.history.redoStack = <<>>]_vars

\* three records on a manager of size 2: the oldest snapshot was dropped
C39_Witness ==
    /\ obs.history.maxHistory = 2
    /\ obs.history.calls = 3
    /\ obs.history.recorded = 3
    /\ Len(obs.history.undoStack) = 2
    /\ obs.history.redoStack = <<>>

IsMoveStep == obs'.timeline.calls # obs.timeline.calls /\ obs'.timeline.lastOp = "moveScene"
ValidSceneIndex(t, index) == index >= 0 /\ index < Len(t.scenes)
SceneSet(t) == {t.scenes[i] : i \in 1 .. Len(t.scenes)}
CurrentSceneOf(t) == t.scenes[t.currentSceneIndex + 1]

\* C40: Timeline.moveScene(fromIndex, toIndex) with both indices valid keeps
\* the same scene current, leaves the set of scenes unchanged and puts the
\* moved scene at toIndex; with an invalid index nothing changes.
C40_MoveSceneKeepsCurrentScene ==
    [][IsMoveStep =>
         IF /\ ValidSceneIndex(obs.timeline, obs'.timeline.moved.from)
            /\ ValidSceneIndex(obs.timeline, obs'.timeline.moved.to)
         THEN /\ ValidSceneIndex(obs'.timeline, obs'.timeline.currentSceneIndex)
              /\ CurrentSceneOf(obs'.timeline) = CurrentSceneOf(obs.timeline)
              /\ SceneSet(obs'.timeline) = SceneSet(obs.timeline)
              /\ Len(obs'.timeline.scenes) = Len(obs.timeline.scenes)
              /\ obs'.timeline.scenes[obs'.timeline.moved.to + 1]
                     = obs.timeline.scenes[obs'.timeline.moved.from + 1]
         ELSE /\ obs'.timeline.scenes = obs.timeline.scenes
              /\ obs'.timeline.currentSceneIndex = obs.timeline.currentSceneIndex]_vars

\* the last of three scenes was moved to the front while the middle one was
\* current, which shifted the current scene from index 1 to index 2
C40_Witness ==
    /\ obs.timeline.lastOp = "moveScene"
    /\ obs.timeline.moved = [from |-> 2, to |-> 0]
    /\ obs.timeline.scenes = <<3, 1, 2>>
    /\ obs.timeline.currentSceneIndex = 2

====
